---------------------------- MODULE Spec2Model ----------------------------
(***************************************************************************)
(* Vestaflare: the text layout engine (formatTextForVestaboard and its     *)
(* helpers, src/src/index.ts 170-526).                                     *)
(*                                                                         *)
(* A JavaScript string is modelled as a sequence of one-character strings, *)
(* so that the placeholder substitution, the character-indexed loops and   *)
(* substring() calls of the source act on the same positions here.         *)
(* Positions named "0-based" are JavaScript indices; s[i + 1] reads the    *)
(* character at JavaScript index i.                                        *)
(***************************************************************************)
EXTENDS Integers, Sequences, FiniteSets, TLC

(***************************************************************************)
(* Program constants                                                       *)
(***************************************************************************)
VESTABOARD_ROWS == 6
VESTABOARD_COLS == 22

(***************************************************************************)
(* String primitives of the JavaScript runtime used by the formatter       *)
(***************************************************************************)
Rep(c, n) == [i \in 1..n |-> c]

MinOf(S) == CHOOSE x \in S : \A y \in S : x <= y

\* s.substring(a, b) for 0 <= a, with b clamped to the length
Substring(s, a, b) == SubSeq(s, a + 1, IF b > Len(s) THEN Len(s) ELSE b)

\* s.startsWith(pat, i), i 0-based
StartsWith(s, pat, i) ==
    /\ i + Len(pat) <= Len(s)
    /\ \A k \in 1..Len(pat) : s[i + k] = pat[k]

\* s.indexOf(pat, from): the 0-based index of the first occurrence at or
\* after from, -1 when there is none
IndexOf(s, pat, from) ==
    LET found == {i \in from..(Len(s) - Len(pat)) : StartsWith(s, pat, i)}
    IN  IF found = {} THEN -1 ELSE MinOf(found)

\* s.replace(pat, rep) with a string pattern: the first occurrence only
StringReplace(s, pat, rep) ==
    LET i == IndexOf(s, pat, 0)
    IN  IF i = -1 THEN s
        ELSE SubSeq(s, 1, i) \o rep \o SubSeq(s, i + Len(pat) + 1, Len(s))

\* a pattern / +/ in the place of /\s+/: a newline is no separator
IsSpaceBlankOnly(c) == c = " "

\* the characters matched by \s (and removed by trim()) that inputs may hold
IsSpace(c) == c \in {" ", "\n", "\t", "\r"}

RECURSIVE TrimStart(_)
TrimStart(s) ==
    IF s # << >> /\ IsSpace(Head(s)) THEN TrimStart(Tail(s)) ELSE s

RECURSIVE TrimEnd(_)
TrimEnd(s) ==
    IF s # << >> /\ IsSpace(s[Len(s)]) THEN TrimEnd(SubSeq(s, 1, Len(s) - 1))
    ELSE s

\* s.trim()
Trim(s) == TrimEnd(TrimStart(s))

\* s.split(/\s+/): the pieces between maximal runs of white space, the empty
\* pieces before a leading run and after a trailing run included
SplitWhitespace(s) ==
    IF s = << >> THEN << << >> >>
    ELSE LET starts == {i \in 1..Len(s) :
                           ~IsSpace(s[i]) /\ (i = 1 \/ IsSpace(s[i - 1]))}
             Nth(k) == CHOOSE i \in starts :
                           Cardinality({j \in starts : j <= i}) = k
             End(i) == MinOf({j \in i..Len(s) : j = Len(s) \/ IsSpace(s[j + 1])})
         IN  (IF IsSpace(s[1]) THEN << << >> >> ELSE << >>)
             \o [k \in 1..Cardinality(starts) |-> SubSeq(s, Nth(k), End(Nth(k)))]
             \o (IF IsSpace(s[Len(s)]) THEN << << >> >> ELSE << >>)

\* lines.join(sep)
RECURSIVE Join(_, _)
Join(parts, sep) ==
    IF parts = << >> THEN << >>
    ELSE IF Len(parts) = 1 THEN parts[1]
    ELSE parts[1] \o sep \o Join(Tail(parts), sep)

\* text.split('\n')
SplitNewline(s) ==
    LET breaks == {i \in 1..Len(s) : s[i] = "\n"}
        \* the position of the k-th newline; 0 and Len(s) + 1 bound the text
        Nth(k) == IF k = 0 THEN 0
                  ELSE IF k > Cardinality(breaks) THEN Len(s) + 1
                  ELSE CHOOSE i \in breaks :
                           Cardinality({j \in breaks : j <= i}) = k
    IN  [k \in 1..(Cardinality(breaks) + 1) |->
             SubSeq(s, Nth(k - 1) + 1, Nth(k) - 1)]

UpperLetters ==
    <<"A","B","C","D","E","F","G","H","I","J","K","L","M",
      "N","O","P","Q","R","S","T","U","V","W","X","Y","Z">>
LowerLetters ==
    <<"a","b","c","d","e","f","g","h","i","j","k","l","m",
      "n","o","p","q","r","s","t","u","v","w","x","y","z">>

\* c.toLowerCase() / c.toUpperCase() for one character
ToLowerCase(c) ==
    IF \E k \in 1..26 : UpperLetters[k] = c
    THEN LowerLetters[CHOOSE k \in 1..26 : UpperLetters[k] = c] ELSE c
ToUpperCase(c) ==
    IF \E k \in 1..26 : LowerLetters[k] = c
    THEN UpperLetters[CHOOSE k \in 1..26 : LowerLetters[k] = c] ELSE c

Digits == <<"0","1","2","3","4","5","6","7","8","9">>
IsDigit(c) == \E k \in 1..10 : Digits[k] = c

\* `${n}` for a natural number n
RECURSIVE NumberToString(_)
NumberToString(n) ==
    IF n < 10 THEN <<Digits[n + 1]>>
    ELSE Append(NumberToString(n \div 10), Digits[(n % 10) + 1])

(***************************************************************************)
(* VBML_COLOR_PATTERN = /\{(red|orange|yellow|green|blue|violet|white)\}/gi *)
(***************************************************************************)
ColorNames ==
    << <<"r","e","d">>, <<"o","r","a","n","g","e">>,
       <<"y","e","l","l","o","w">>, <<"g","r","e","e","n">>,
       <<"b","l","u","e">>, <<"v","i","o","l","e","t">>,
       <<"w","h","i","t","e">> >>

\* the length of the match of the pattern at 0-based index i, 0 when none
ColorMatchLen(s, i) ==
    IF ~(i < Len(s) /\ s[i + 1] = "{") THEN 0
    ELSE LET Hit(n) == /\ i + Len(n) + 2 <= Len(s)
                       /\ s[i + Len(n) + 2] = "}"
                       /\ \A k \in 1..Len(n) : ToLowerCase(s[i + 1 + k]) = n[k]
             hits == {j \in 1..Len(ColorNames) : Hit(ColorNames[j])}
         IN  IF hits = {} THEN 0
             ELSE Len(ColorNames[CHOOSE j \in hits : \A k \in hits : j <= k]) + 2

\* VBML_COLOR_PATTERN.exec(s) with the pattern's lastIndex at from: the index
\* of the first match at or after from, -1 when exec returns null
ColorExec(s, from) ==
    LET found == {i \in from..(Len(s) - 1) : ColorMatchLen(s, i) > 0}
    IN  IF found = {} THEN -1 ELSE MinOf(found)

COLOR_PREFIX == <<"_","_","C","O","L","O","R","_">>
UNDERSCORES == <<"_","_">>

\* `__COLOR_${n}__`
Placeholder(n) == COLOR_PREFIX \o NumberToString(n) \o UNDERSCORES

RECURSIVE DigitRun(_, _)
DigitRun(s, i) ==
    IF i < Len(s) /\ IsDigit(s[i + 1]) THEN 1 + DigitRun(s, i + 1) ELSE 0

\* the length of the match of /__COLOR_\d+__/ at 0-based index i, 0 when none
PlaceholderMatchLen(s, i) ==
    IF ~StartsWith(s, COLOR_PREFIX, i) THEN 0
    ELSE LET d == DigitRun(s, i + 8)
         IN  IF d >= 1 /\ StartsWith(s, UNDERSCORES, i + 8 + d)
             THEN 8 + d + 2 ELSE 0

\* getEffectiveLength: text.replace(/__COLOR_\d+__/g, 'X').length. The global
\* replace takes the leftmost match at or after i, puts one X for it and goes
\* on after it; every other character stays.
RECURSIVE EffectiveFrom(_, _)
EffectiveFrom(s, i) ==
    LET found == {j \in i..(Len(s) - 1) : PlaceholderMatchLen(s, j) > 0}
    IN  IF found = {} THEN Len(s) - i
        ELSE LET at == MinOf(found)
             IN  (at - i) + 1 + EffectiveFrom(s, at + PlaceholderMatchLen(s, at))

getEffectiveLength(text) == EffectiveFrom(text, 0)

(***************************************************************************)
(* formatTextForVestaboard, Step 1: the exec loop that replaces each color *)
(* code by a placeholder. lastIndex is the scan position the global        *)
(* pattern object carries from one exec call to the next.                  *)
(***************************************************************************)
\* the loop with a pattern whose lastIndex is not put back to 0 by the exec
\* that finds nothing: the next call begins where this one ended
RECURSIVE ExtractColorCodesStale(_, _, _, _, _)
ExtractColorCodesStale(originalText, lastIndex, colorCodes, processedText, offset) ==
    LET at == IF lastIndex > Len(originalText) THEN -1
              ELSE ColorExec(originalText, lastIndex)
    IN  IF at = -1
        THEN [colorCodes |-> colorCodes, processedText |-> processedText,
              lastIndex |-> lastIndex]
        ELSE LET n == ColorMatchLen(originalText, at)
                 match0 == Substring(originalText, at, at + n)
                 placeholder == Placeholder(Len(colorCodes))
             IN  ExtractColorCodesStale(
                     originalText, at + n,
                     Append(colorCodes, [index |-> at - offset, code |-> match0]),
                     StringReplace(processedText, match0, placeholder),
                     offset + n - Len(placeholder))

RECURSIVE ExtractColorCodes(_, _, _, _, _)
ExtractColorCodes(originalText, lastIndex, colorCodes, processedText, offset) ==
    LET at == IF lastIndex > Len(originalText) THEN -1
              ELSE ColorExec(originalText, lastIndex)
    IN  IF at = -1
        THEN [colorCodes |-> colorCodes, processedText |-> processedText,
              lastIndex |-> 0]
        ELSE LET n == ColorMatchLen(originalText, at)
                 match0 == Substring(originalText, at, at + n)
                 placeholder == Placeholder(Len(colorCodes))
             IN  ExtractColorCodes(
                     originalText, at + n,
                     Append(colorCodes, [index |-> at - offset, code |-> match0]),
                     StringReplace(processedText, match0, placeholder),
                     offset + n - Len(placeholder))

(***************************************************************************)
(* splitLongWord                                                           *)
(***************************************************************************)
\* the inner for loop: the value of realIndex when it ends
RECURSIVE SplitPoint(_, _, _, _, _)
SplitPoint(remainingWord, maxLength, i, currentLength, realIndex) ==
    IF ~(i < Len(remainingWord) /\ currentLength < maxLength) THEN realIndex
    ELSE IF StartsWith(remainingWord, COLOR_PREFIX, i)
         THEN LET endIndex == IndexOf(remainingWord, UNDERSCORES, i + 2)
              IN  IF endIndex # -1
                  THEN SplitPoint(remainingWord, maxLength, endIndex + 2,
                                  currentLength + 1, endIndex + 2)
                  ELSE SplitPoint(remainingWord, maxLength, i + 1,
                                  currentLength + 1, i + 1)
         ELSE SplitPoint(remainingWord, maxLength, i + 1,
                         currentLength + 1, i + 1)

RECURSIVE SplitLongWordLoop(_, _, _)
SplitLongWordLoop(remainingWord, maxLength, parts) ==
    IF getEffectiveLength(remainingWord) > maxLength
    THEN LET splitPoint == SplitPoint(remainingWord, maxLength, 0, 0, 0)
         IN  SplitLongWordLoop(
                 Substring(remainingWord, splitPoint, Len(remainingWord)),
                 maxLength,
                 Append(parts, Substring(remainingWord, 0, splitPoint)))
    ELSE IF Len(remainingWord) > 0 THEN Append(parts, remainingWord)
    ELSE parts

splitLongWord(word, maxLength) == SplitLongWordLoop(word, maxLength, << >>)

(***************************************************************************)
(* buildLinesWithWordWrapping                                              *)
(***************************************************************************)
\* the loop body with the long-word test off by one (>= for >, and chunks of
\* maxLength - 1): a word of exactly 22 units that starts a line is broken
WrapWordOffByOne(lines, currentLine, word) ==
    LET effectiveWordLength == getEffectiveLength(word)
        effectiveCurrentLineLength == getEffectiveLength(currentLine)
        spaceNeeded == IF Len(currentLine) > 0 THEN 1 ELSE 0
    IN  IF effectiveCurrentLineLength + spaceNeeded + effectiveWordLength
              <= VESTABOARD_COLS
        THEN [lines |-> lines,
              currentLine |-> (IF Len(currentLine) > 0
                               THEN Append(currentLine, " ")
                               ELSE currentLine) \o word]
        ELSE LET flushed == IF Len(currentLine) > 0
                            THEN Append(lines, currentLine) ELSE lines
             IN  IF effectiveWordLength >= VESTABOARD_COLS
                 THEN LET splitWords == splitLongWord(word, VESTABOARD_COLS - 1)
                      IN  [lines |-> flushed
                                     \o SubSeq(splitWords, 1, Len(splitWords) - 1),
                           currentLine |-> splitWords[Len(splitWords)]]
                 ELSE [lines |-> flushed, currentLine |-> word]

\* one iteration of the for loop over words: the new (lines, currentLine)
WrapWord(lines, currentLine, word) ==
    LET effectiveWordLength == getEffectiveLength(word)
        effectiveCurrentLineLength == getEffectiveLength(currentLine)
        spaceNeeded == IF Len(currentLine) > 0 THEN 1 ELSE 0
    IN  IF effectiveCurrentLineLength + spaceNeeded + effectiveWordLength
              <= VESTABOARD_COLS
        THEN [lines |-> lines,
              currentLine |-> (IF Len(currentLine) > 0
                               THEN Append(currentLine, " ")
                               ELSE currentLine) \o word]
        ELSE LET flushed == IF Len(currentLine) > 0
                            THEN Append(lines, currentLine) ELSE lines
             IN  IF effectiveWordLength > VESTABOARD_COLS
                 THEN LET splitWords == splitLongWord(word, VESTABOARD_COLS)
                      IN  [lines |-> flushed
                                     \o SubSeq(splitWords, 1, Len(splitWords) - 1),
                           currentLine |-> splitWords[Len(splitWords)]]
                 ELSE [lines |-> flushed, currentLine |-> word]

RECURSIVE WrapLoop(_, _, _, _)
WrapLoop(words, k, lines, currentLine) ==
    IF k > Len(words)
    THEN IF Len(currentLine) > 0 THEN Append(lines, currentLine) ELSE lines
    ELSE LET st == WrapWord(lines, currentLine, words[k])
         IN  WrapLoop(words, k + 1, st.lines, st.currentLine)

buildLinesWithWordWrapping(words) == WrapLoop(words, 1, << >>, << >>)

(***************************************************************************)
(* handleOverflow                                                          *)
(***************************************************************************)
ELLIPSIS == <<".", ".", ".">>

\* the for loop of the third ellipsis branch: the value of truncatedLine
RECURSIVE EllipsisCut(_, _, _, _, _)
EllipsisCut(lastLine, truncateLength, i, currentLength, truncatedLine) ==
    IF ~(i < Len(lastLine) /\ currentLength < truncateLength) THEN truncatedLine
    ELSE IF StartsWith(lastLine, COLOR_PREFIX, i)
         THEN LET endIndex == IndexOf(lastLine, UNDERSCORES, i + 2)
              IN  IF endIndex # -1
                  THEN EllipsisCut(lastLine, truncateLength, endIndex + 2,
                           currentLength + 1,
                           truncatedLine \o Substring(lastLine, i, endIndex + 2))
                  ELSE EllipsisCut(lastLine, truncateLength, i + 1,
                           currentLength + 1, Append(truncatedLine, lastLine[i + 1]))
         ELSE EllipsisCut(lastLine, truncateLength, i + 1,
                  currentLength + 1, Append(truncatedLine, lastLine[i + 1]))

\* the 'ellipsis' case: the new last line
EllipsisLastLine(lastLine) ==
    LET effectiveLength == getEffectiveLength(lastLine)
    IN  IF effectiveLength <= VESTABOARD_COLS - 3
        THEN lastLine \o ELLIPSIS
        ELSE IF effectiveLength <= VESTABOARD_COLS - 1
        THEN Substring(lastLine, 0, Len(lastLine) - 2) \o ELLIPSIS
        ELSE LET truncateLength == IF effectiveLength - 3 > 0
                                   THEN effectiveLength - 3 ELSE 0
             IN  EllipsisCut(lastLine, truncateLength, 0, 0, << >>) \o ELLIPSIS

\* handleOverflow with slice(-VESTABOARD_ROWS) in the 'truncate' case: the
\* last 6 lines are kept
handleOverflowKeepsLast(lines, overflowHandling) ==
    IF Len(lines) <= VESTABOARD_ROWS THEN [thrown |-> FALSE, lines |-> lines]
    ELSE IF overflowHandling = "error"
    THEN [thrown |-> TRUE, count |-> Len(lines), max |-> VESTABOARD_ROWS]
    ELSE [thrown |-> FALSE,
          lines |-> SubSeq(lines, Len(lines) - VESTABOARD_ROWS + 1, Len(lines))]

\* handleOverflow with < for <= in its first test: exactly 6 lines already
\* count as overflow
handleOverflowFullIsOver(lines, overflowHandling) ==
    IF Len(lines) < VESTABOARD_ROWS THEN [thrown |-> FALSE, lines |-> lines]
    ELSE IF overflowHandling = "error"
    THEN [thrown |-> TRUE, count |-> Len(lines), max |-> VESTABOARD_ROWS]
    ELSE [thrown |-> FALSE, lines |-> SubSeq(lines, 1, VESTABOARD_ROWS)]

\* [thrown |-> TRUE, count, max] for the Error of the 'error' case, otherwise
\* [thrown |-> FALSE, lines]
handleOverflow(lines, overflowHandling) ==
    IF Len(lines) <= VESTABOARD_ROWS THEN [thrown |-> FALSE, lines |-> lines]
    ELSE IF overflowHandling = "error"
    THEN [thrown |-> TRUE, count |-> Len(lines), max |-> VESTABOARD_ROWS]
    ELSE IF overflowHandling = "ellipsis"
    THEN LET truncatedLines == SubSeq(lines, 1, VESTABOARD_ROWS)
         IN  [thrown |-> FALSE,
              lines |-> IF Len(truncatedLines) = VESTABOARD_ROWS
                        THEN [truncatedLines EXCEPT ![Len(truncatedLines)] =
                                 EllipsisLastLine(truncatedLines[Len(truncatedLines)])]
                        ELSE truncatedLines]
    ELSE [thrown |-> FALSE, lines |-> SubSeq(lines, 1, VESTABOARD_ROWS)]

(***************************************************************************)
(* applyVerticalAlignment                                                  *)
(***************************************************************************)
\* applyVerticalAlignment with Math.ceil for Math.floor in the 'middle' case
applyVerticalAlignmentCeil(lines, verticalAlign) ==
    IF Len(lines) >= VESTABOARD_ROWS \/ verticalAlign = "top"
    THEN SubSeq(lines \o Rep(<< >>, IF Len(lines) < VESTABOARD_ROWS
                                    THEN VESTABOARD_ROWS - Len(lines) ELSE 0),
                1, VESTABOARD_ROWS)
    ELSE LET emptyLines == VESTABOARD_ROWS - Len(lines)
         IN  IF verticalAlign = "middle"
             THEN LET topPadding == (emptyLines + 1) \div 2
                      bottomPadding == emptyLines - topPadding
                  IN  Rep(<< >>, topPadding) \o lines \o Rep(<< >>, bottomPadding)
             ELSE IF verticalAlign = "bottom"
             THEN Rep(<< >>, emptyLines) \o lines
             ELSE lines \o Rep(<< >>, emptyLines)

applyVerticalAlignment(lines, verticalAlign) ==
    IF Len(lines) >= VESTABOARD_ROWS \/ verticalAlign = "top"
    THEN SubSeq(lines \o Rep(<< >>, IF Len(lines) < VESTABOARD_ROWS
                                    THEN VESTABOARD_ROWS - Len(lines) ELSE 0),
                1, VESTABOARD_ROWS)
    ELSE LET emptyLines == VESTABOARD_ROWS - Len(lines)
         IN  IF verticalAlign = "middle"
             THEN LET topPadding == emptyLines \div 2
                      bottomPadding == emptyLines - topPadding
                  IN  Rep(<< >>, topPadding) \o lines \o Rep(<< >>, bottomPadding)
             ELSE IF verticalAlign = "bottom"
             THEN Rep(<< >>, emptyLines) \o lines
             ELSE lines \o Rep(<< >>, emptyLines)

(***************************************************************************)
(* truncateLineToFit and applyHorizontalAlignment                          *)
(***************************************************************************)
RECURSIVE TruncateLoop(_, _, _, _, _)
TruncateLoop(line, maxLength, i, currentLength, truncatedLine) ==
    IF ~(i < Len(line) /\ currentLength < maxLength) THEN truncatedLine
    ELSE IF StartsWith(line, COLOR_PREFIX, i)
         THEN LET endIndex == IndexOf(line, UNDERSCORES, i + 2)
              IN  IF endIndex # -1 /\ currentLength < maxLength
                  THEN TruncateLoop(line, maxLength, endIndex + 2,
                           currentLength + 1,
                           truncatedLine \o Substring(line, i, endIndex + 2))
                  ELSE TruncateLoop(line, maxLength, i + 1,
                           currentLength, truncatedLine)
         ELSE IF currentLength < maxLength
         THEN TruncateLoop(line, maxLength, i + 1,
                  currentLength + 1, Append(truncatedLine, line[i + 1]))
         ELSE TruncateLoop(line, maxLength, i + 1, currentLength, truncatedLine)

truncateLineToFit(line, maxLength) ==
    IF getEffectiveLength(line) <= maxLength THEN line
    ELSE TruncateLoop(line, maxLength, 0, 0, << >>)

applyHorizontalAlignment(line, horizontalAlign) ==
    LET effectiveLength == getEffectiveLength(line)
    IN  IF effectiveLength >= VESTABOARD_COLS \/ horizontalAlign = "left"
        THEN IF effectiveLength > VESTABOARD_COLS
             THEN truncateLineToFit(line, VESTABOARD_COLS)
             ELSE line
        ELSE LET padding == VESTABOARD_COLS - effectiveLength
             IN  IF horizontalAlign = "center"
                 THEN LET leftPadding == padding \div 2
                          rightPadding == padding - leftPadding
                      IN  Rep(" ", leftPadding) \o line \o Rep(" ", rightPadding)
                 ELSE IF horizontalAlign = "right"
                 THEN Rep(" ", padding) \o line
                 ELSE line \o Rep(" ", padding)

(***************************************************************************)
(* restoreColorCodes                                                       *)
(***************************************************************************)
RECURSIVE RestoreLoop(_, _, _)
RestoreLoop(result, colorCodes, i) ==
    IF i >= Len(colorCodes) THEN result
    ELSE RestoreLoop(StringReplace(result, Placeholder(i), colorCodes[i + 1].code),
                     colorCodes, i + 1)

restoreColorCodes(text, colorCodes) == RestoreLoop(text, colorCodes, 0)

(***************************************************************************)
(* Inputs. A text is a concatenation of tokens; a token is a character or  *)
(* a short string the formatter gives a meaning to.                        *)
(***************************************************************************)
MaxTokens == 3
MaxFill == 5
MaxTail == 2

RED == <<"{","r","e","d","}">>
RED_UPPER == <<"{","R","E","D","}">>
BLUE_MIXED == <<"{","B","l","u","e","}">>
\* text that is spelled like the placeholders the formatter substitutes
LITERAL_PLACEHOLDER == <<"_","_","C","O","L","O","R","_","1","_","_">>
LITERAL_PREFIX == <<"_","_","C","O","L","O","R","_","x","_","_">>

Tokens ==
    { <<"a">>, <<" ">>, <<"\n">>, <<"{">>, RED_UPPER, BLUE_MIXED,
      LITERAL_PLACEHOLDER }

RECURSIVE Concat(_)
Concat(seqs) == IF seqs = << >> THEN << >> ELSE Head(seqs) \o Concat(Tail(seqs))

RECURSIVE TokenSeqs(_)
TokenSeqs(n) ==
    IF n = 0 THEN { << >> }
    ELSE LET shorter == TokenSeqs(n - 1)
         IN  shorter \cup { Append(q, t) : q \in {r \in shorter : Len(r) = n - 1},
                                            t \in Tokens }

ShortTexts == { Concat(q) : q \in TokenSeqs(MaxTokens) }

\* a word that fills more than half a row, so that each one takes a line
FILL == Rep("a", 12)

TailWords ==
    { <<"b">>,
      Rep("a", 8) \o RED_UPPER,
      Rep("a", 19) \o RED,
      Rep("a", 21) \o RED \o <<"a">>,
      Rep("a", 22),
      LITERAL_PREFIX \o Rep("a", 12) }

RECURSIVE TailSeqs(_)
TailSeqs(n) ==
    IF n = 0 THEN { << >> }
    ELSE LET shorter == TailSeqs(n - 1)
         IN  shorter \cup { Append(q, w) : q \in {r \in shorter : Len(r) = n - 1},
                                            w \in TailWords }

LongTexts ==
    { Join(Rep(FILL, k) \o q, <<" ">>) : k \in 0..MaxFill, q \in TailSeqs(MaxTail) }

Inputs == ShortTexts \cup LongTexts

\* the options argument: every combination of the three settings, and the
\* empty object, whose three fields are undefined
OptionValues ==
    [horizontalAlign : {"left", "center", "right"},
     verticalAlign : {"top", "middle", "bottom"},
     overflowHandling : {"truncate", "ellipsis", "error"}]
    \cup {[horizontalAlign |-> "undefined", verticalAlign |-> "undefined",
           overflowHandling |-> "undefined"]}

\* a destructuring default: value = dflt
Default(value, dflt) == IF value = "undefined" THEN dflt ELSE value

(***************************************************************************)
(* State: one call of formatTextForVestaboard. rawText and options are the *)
(* arguments, lastIndex is the lastIndex of the module-level               *)
(* VBML_COLOR_PATTERN object, the other variables are the locals of the    *)
(* call as they stand when it returns or throws.                           *)
(***************************************************************************)
VARIABLES pc, rawText, options, lastIndex, colorCodes, words, lines,
          processedLines, result

\* the number of calls of formatTextForVestaboard that have ended
VARIABLE calls

(***************************************************************************)
(* State of the post-message and get-current-message tools: tool is the    *)
(* position of the handler; vbml, idx (the loop index i), row, col and     *)
(* matrix are the argument and locals of vbmlToCharacterCodes; displayText *)
(* is the text made by characterCodesToText.                               *)
(***************************************************************************)
VARIABLES tool, vbml, idx, row, col, matrix, displayText

(***************************************************************************)
(* State of the Workers entry point (worker.ts). bindings is the env       *)
(* argument of fetch; served is the request fetch handled last and answer  *)
(* what it did with it; sessions is the module-level Map, a set of entries *)
(* of a session id and the stream whose controller the entry holds;        *)
(* streams are the ReadableStreams made by createSSEResponse, in the order *)
(* made.                                                                   *)
(***************************************************************************)
VARIABLES bindings, served, answer, sessions, streams

workerVars == <<bindings, served, answer, sessions, streams>>

(***************************************************************************)
(* State of one WorkerTransport (worker-transport.ts). sendHandlers are    *)
(* the temporary send methods that processMessage has put in place of      *)
(* this.send and that have not run, each named by the id of its request,   *)
(* the last one being the current this.send; delivered are the messages    *)
(* given to onmessage; answered the ids of the requests whose response the *)
(* server has sent; resolved what each handlePostRequest call got as its   *)
(* response; notified the number of notifications the server has sent.     *)
(***************************************************************************)
VARIABLES sendHandlers, delivered, answered, resolved, notified

transportVars == <<sendHandlers, delivered, answered, resolved, notified>>

TransportNew ==
    /\ sendHandlers = << >>
    /\ delivered = {}
    /\ answered = {}
    /\ resolved = {}
    /\ notified = 0

(***************************************************************************)
(* State of the Express MCPServer. transports is its map, a set of entries *)
(* of a session id and the transport registered under it; created is the   *)
(* number of transports made; asked is the request handled last and        *)
(* replied what was done with it.                                          *)
(***************************************************************************)
VARIABLES transports, created, asked, replied

expressVars == <<transports, created, asked, replied>>

NoAsked ==
    [method |-> "", sessionId |-> << >>,
     body |-> [present |-> FALSE, isArray |-> FALSE, jsonrpc |-> FALSE,
               method |-> "", isInitialize |-> FALSE]]
NoReplied == [status |-> 0, by |-> "", transport |-> 0]

ExpressNew ==
    /\ transports = {}
    /\ created = 0
    /\ asked = NoAsked
    /\ replied = NoReplied

serverVars == <<workerVars, transportVars, expressVars>>

\* undefined, null and '': the code tests these values for truthiness only
NONE == << >>

\* a body that is not there
NoBody ==
    [valid |-> FALSE, isObject |-> FALSE, method |-> "", hasParams |-> FALSE,
     name |-> "", hasArguments |-> FALSE, text |-> NONE]
\* the headers of a request that the Worker reads, by name
Headers(authorization, apiKey, sessionId) ==
    [n \in {"Authorization", "X-API-Key", "mcp-session-id"} |->
        IF n = "Authorization" THEN authorization
        ELSE IF n = "X-API-Key" THEN apiKey
        ELSE sessionId]
NoRequest ==
    [method |-> "", pathname |-> "", headers |-> Headers(NONE, NONE, NONE),
     body |-> NoBody]
NoDevice == [sent |-> FALSE, method |-> "", outcome |-> ""]
NoAnswer ==
    [status |-> 0, code |-> 0, handler |-> "", text |-> "", device |-> NoDevice]
NoBindings ==
    [MCP_AUTH_REQUIRED |-> "", MCP_API_KEY |-> NONE, MCP_AUTH_HEADER_NAME |-> "",
     VESTABOARD_READ_WRITE_KEY |-> NONE]

\* the Worker as it is loaded, with one of the envs
WorkerLoaded(envs) ==
    /\ bindings \in envs
    /\ served = NoRequest
    /\ answer = NoAnswer
    /\ sessions = {}
    /\ streams = << >>

ServersIdle ==
    /\ WorkerLoaded({NoBindings})
    /\ TransportNew
    /\ ExpressNew

formatVars == <<pc, rawText, options, lastIndex, colorCodes, words, lines,
                processedLines, result, calls>>
codesVars == <<tool, vbml, idx, row, col, matrix, displayText>>
vars == <<pc, rawText, options, lastIndex, colorCodes, words, lines,
          processedLines, result, calls,
          tool, vbml, idx, row, col, matrix, displayText,
          bindings, served, answer, sessions, streams,
          sendHandlers, delivered, answered, resolved, notified,
          transports, created, asked, replied>>

\* no tool call has begun
ToolsIdle ==
    /\ tool = "idle"
    /\ vbml = << >>
    /\ idx = 0
    /\ row = 0
    /\ col = 0
    /\ matrix = << >>
    /\ displayText = << >>

NoOptions == [horizontalAlign |-> "undefined", verticalAlign |-> "undefined",
              overflowHandling |-> "undefined"]
NoResult == [kind |-> "none", text |-> << >>, count |-> 0, max |-> 0]
Returned(text) == [kind |-> "return", text |-> text, count |-> 0, max |-> 0]
Thrown(count, max) == [kind |-> "throw", text |-> << >>, count |-> count, max |-> max]

\* the state before a call with a text of the set texts
FormatStart(texts) ==
    /\ pc = "call"
    /\ rawText \in texts
    /\ options = NoOptions
    /\ lastIndex = 0
    /\ colorCodes = << >>
    /\ words = << >>
    /\ lines = << >>
    /\ processedLines = << >>
    /\ result = NoResult
    /\ calls = 0

InitOver(texts) ==
    /\ FormatStart(texts)
    /\ ToolsIdle
    /\ ServersIdle

Init == InitOver(Inputs)

\* an array map: the elements of s under Op
MapLines(s, Op(_)) == [k \in 1..Len(s) |-> Op(s[k])]

\* Steps 1 to 3 of formatTextForVestaboard, for a text that is not blank
WrapSteps(text, last) ==
    LET step1 == ExtractColorCodes(text, last, << >>, text, 0)
        step2 == SelectSeq(SplitWhitespace(step1.processedText),
                           LAMBDA word : Len(word) > 0)
    IN  [lastIndex |-> step1.lastIndex, colorCodes |-> step1.colorCodes,
         words |-> step2, lines |-> buildLinesWithWordWrapping(step2)]

\* Steps 4 to 7 of formatTextForVestaboard
FinishSteps(wrapped, opts) ==
    LET horizontalAlign == Default(opts.horizontalAlign, "left")
        verticalAlign == Default(opts.verticalAlign, "top")
        overflowHandling == Default(opts.overflowHandling, "truncate")
        step4 == handleOverflow(wrapped.lines, overflowHandling)
    IN  IF step4.thrown
        THEN [processedLines |-> << >>, result |-> Thrown(step4.count, step4.max)]
        ELSE LET verticallyAlignedLines ==
                     applyVerticalAlignment(step4.lines, verticalAlign)
                 finalLines ==
                     MapLines(verticallyAlignedLines,
                         LAMBDA line : applyHorizontalAlignment(line, horizontalAlign))
             IN  [processedLines |-> step4.lines,
                  result |-> Returned(restoreColorCodes(Join(finalLines, <<"\n">>),
                                                        wrapped.colorCodes))]

\* !rawText || rawText.trim().length === 0
IsBlank(text) == Len(text) = 0 \/ Len(Trim(text)) = 0

\* the value a call returns or the error it throws, as a function of its
\* arguments and of the pattern's lastIndex when it begins
formatTextForVestaboard(text, opts, last) ==
    IF IsBlank(text) THEN Returned(<< >>)
    ELSE FinishSteps(WrapSteps(text, last), opts).result

\* one call of formatTextForVestaboard(rawText, opts)
Call ==
    /\ pc = "call"
    /\ pc' = "done"
    /\ calls' = calls + 1
    /\ UNCHANGED rawText
    /\ UNCHANGED codesVars
    /\ UNCHANGED serverVars
    /\ IF IsBlank(rawText)
       THEN /\ \E opts \in OptionValues : options' = opts
            /\ result' = Returned(<< >>)
            /\ UNCHANGED <<lastIndex, colorCodes, words, lines, processedLines>>
       ELSE LET wrapped == WrapSteps(rawText, lastIndex)
            IN  /\ lastIndex' = wrapped.lastIndex
                /\ colorCodes' = wrapped.colorCodes
                /\ words' = wrapped.words
                /\ lines' = wrapped.lines
                /\ \E opts \in OptionValues :
                      LET finished == FinishSteps(wrapped, opts)
                      IN  /\ options' = opts
                          /\ processedLines' = finished.processedLines
                          /\ result' = finished.result

Next == Call

Spec == Init /\ [][Next]_vars

\* the calls whose text is a sequence of tokens, and those whose text is a
\* sequence of words
SpecTokens == InitOver(ShortTexts) /\ [][Next]_vars
SpecWords == InitOver(LongTexts) /\ [][Next]_vars

(***************************************************************************)
(* Vocabulary of the properties. A display unit is one character or one    *)
(* whole color directive {name}.                                           *)
(***************************************************************************)
Done == pc = "done"
HasReturned == pc = "done" /\ result.kind = "return"
HasThrown == pc = "done" /\ result.kind = "throw"

HorizontalAlign == Default(options.horizontalAlign, "left")
VerticalAlign == Default(options.verticalAlign, "top")
OverflowHandling == Default(options.overflowHandling, "truncate")

\* the color directives of a text, left to right, as written
RECURSIVE DirectivesFrom(_, _)
DirectivesFrom(s, i) ==
    LET at == ColorExec(s, i)
    IN  IF at = -1 THEN << >>
        ELSE LET n == ColorMatchLen(s, at)
             IN  <<Substring(s, at, at + n)>> \o DirectivesFrom(s, at + n)

DirectivesOf(s) == DirectivesFrom(s, 0)

\* the text between and around its color directives
RECURSIVE WithoutDirectivesFrom(_, _)
WithoutDirectivesFrom(s, i) ==
    LET at == ColorExec(s, i)
    IN  IF at = -1 THEN Substring(s, i, Len(s))
        ELSE Substring(s, i, at)
             \o WithoutDirectivesFrom(s, at + ColorMatchLen(s, at))

WithoutDirectives(s) == WithoutDirectivesFrom(s, 0)

\* the number of display units of a text
DisplayLength(s) == Len(WithoutDirectives(s)) + Len(DirectivesOf(s))

LowerCased(s) == [i \in 1..Len(s) |-> ToLowerCase(s[i])]
Occurrences(s, c) == Cardinality({i \in 1..Len(s) : s[i] = c})

\* the rows of the returned text
Rows == SplitNewline(result.text)

\* the whitespace-delimited words of the input
RawWords == SelectSeq(SplitWhitespace(rawText), LAMBDA w : Len(w) > 0)

Smaller(a, b) == IF a < b THEN a ELSE b

(***************************************************************************)
(* C1. Every call either throws, and then overflowHandling is 'error', or  *)
(* returns exactly 6 lines of exactly 22 display units each.               *)
(***************************************************************************)
C1_GridShape ==
    /\ HasThrown => OverflowHandling = "error"
    /\ HasReturned =>
          /\ Len(Rows) = VESTABOARD_ROWS
          /\ \A r \in 1..Len(Rows) : DisplayLength(Rows[r]) = VESTABOARD_COLS

(***************************************************************************)
(* C2. Every color directive of the output is whole: the returned text     *)
(* holds no piece of a placeholder (an underscore the input did not have)  *)
(* and no piece of a directive (a brace outside a directive that the input *)
(* did not have), under every overflow and alignment setting.              *)
(***************************************************************************)
StrayBraces(s) ==
    Occurrences(WithoutDirectives(s), "{") + Occurrences(WithoutDirectives(s), "}")

C2_DirectivesWhole ==
    HasReturned =>
        /\ Occurrences(rawText, "_") = 0 => Occurrences(result.text, "_") = 0
        /\ StrayBraces(result.text) <= StrayBraces(rawText)

(***************************************************************************)
(* C3. For the empty text and for a text of blanks and newlines only, the  *)
(* call returns the blank grid: 6 lines of 22 blanks.                      *)
(***************************************************************************)
BlankGrid == Join(Rep(Rep(" ", VESTABOARD_COLS), VESTABOARD_ROWS), <<"\n">>)

C3_BlankInputBlankGrid ==
    (Done /\ \A i \in 1..Len(rawText) : rawText[i] \in {" ", "\n"})
        => result = Returned(BlankGrid)

(***************************************************************************)
(* C4. Outside its color directives the returned text holds no lower-case  *)
(* letter: every letter of the input is shown upper-cased.                 *)
(***************************************************************************)
C4_LettersUpperCased ==
    HasReturned =>
        \A i \in 1..Len(WithoutDirectives(result.text)) :
            LET c == WithoutDirectives(result.text)[i]
            IN  ToUpperCase(c) = c

(***************************************************************************)
(* C5. Every color directive of the returned text is written in lower      *)
(* case, whatever case the input used.                                     *)
(***************************************************************************)
C5_DirectivesLowerCased ==
    HasReturned =>
        \A k \in 1..Len(DirectivesOf(result.text)) :
            DirectivesOf(result.text)[k] = LowerCased(DirectivesOf(result.text)[k])

(***************************************************************************)
(* C6. When the wrapped text fits in 6 lines, the color directives of the  *)
(* returned text are, compared without regard to case, the directives of   *)
(* the input, each as many times and in the same left-to-right order.      *)
(***************************************************************************)
C6_DirectivesPreserved ==
    (HasReturned /\ ~IsBlank(rawText) /\ Len(lines) <= VESTABOARD_ROWS) =>
        MapLines(DirectivesOf(result.text), LowerCased)
            = MapLines(DirectivesOf(rawText), LowerCased)

(***************************************************************************)
(* C7. A whitespace-delimited word of at most 22 display units is never    *)
(* split across two lines: read left to right, the blank-separated pieces  *)
(* of the wrapped lines are the words of the text, and only a word of more *)
(* than 22 units appears as several consecutive pieces. The later steps    *)
(* move no content from one line to another.                               *)
(***************************************************************************)
LinePieces == Concat(MapLines(lines, SplitWhitespace))

\* the pieces from the p-th on are the words ws from the k-th on, each word
\* whose text in the input (raw) has at most 22 units being one piece
RECURSIVE WordsKeptWhole(_, _, _, _, _)
WordsKeptWhole(ws, raw, pieces, k, p) ==
    IF k > Len(ws) THEN p = Len(pieces) + 1
    ELSE IF p > Len(pieces) THEN FALSE
    ELSE IF pieces[p] = ws[k] THEN WordsKeptWhole(ws, raw, pieces, k + 1, p + 1)
    ELSE /\ DisplayLength(raw[k]) > VESTABOARD_COLS
         /\ \E j \in 2..(Len(pieces) - p + 1) :
               /\ Concat(SubSeq(pieces, p, p + j - 1)) = ws[k]
               /\ WordsKeptWhole(ws, raw, pieces, k + 1, p + j)

C7_ShortWordsNotSplit ==
    (Done /\ ~IsBlank(rawText)) =>
        LET raw == RawWords
            pieces == LinePieces
        IN  /\ Len(words) = Len(raw)
            /\ WordsKeptWhole(words, raw, pieces, 1, 1)

\* a word of exactly 22 units did not fit after the word before it and went
\* whole to the next line
C7_Witness ==
    /\ Done
    /\ \E k \in 2..Len(words) :
          /\ DisplayLength(RawWords[k]) = VESTABOARD_COLS
          /\ \E i \in 2..Len(lines) : lines[i] = words[k]

(***************************************************************************)
(* C8. A text that is one word of n > 22 display units is wrapped into     *)
(* lines of exactly 22 units each except the last, which holds the rest    *)
(* (23 units give a line of 22 and a line of 1); a word of exactly 22      *)
(* units is one line. Read on the rows returned with the default           *)
(* alignment, which adds nothing to a line.                                *)
(***************************************************************************)
C8_LongWordChunks ==
    (HasReturned /\ Len(RawWords) = 1
                 /\ DisplayLength(RawWords[1]) >= VESTABOARD_COLS
                 /\ HorizontalAlign = "left" /\ VerticalAlign = "top") =>
        LET n == DisplayLength(RawWords[1])
            full == (n - 1) \div VESTABOARD_COLS
        IN  /\ Len(lines) = full + 1
            /\ Concat(lines) = words[1]
            /\ \A i \in 1..Smaller(Len(lines), Len(Rows)) :
                  DisplayLength(Rows[i]) =
                      IF i <= full THEN VESTABOARD_COLS
                      ELSE n - full * VESTABOARD_COLS

(***************************************************************************)
(* C9. Every run of newlines between two words of the input starts a new   *)
(* line: the wrapped text has at least one line more than the input has    *)
(* such runs.                                                              *)
(***************************************************************************)
\* the first newline of each run of white space that lies between two words
NewlineBreaks ==
    {i \in 1..Len(rawText) :
        /\ rawText[i] = "\n"
        /\ \E j \in 1..(i - 1) : ~IsSpace(rawText[j])
        /\ \E j \in (i + 1)..Len(rawText) : ~IsSpace(rawText[j])
        /\ ~\E j \in 1..(i - 1) :
              rawText[j] = "\n" /\ \A m \in j..i : IsSpace(rawText[m])}

NewlinesAsBlanks(text) ==
    [i \in 1..Len(text) |-> IF text[i] = "\n" THEN " " ELSE text[i]]

KeptLines == SubSeq(lines, 1, Smaller(Len(lines), VESTABOARD_ROWS))

C10_TruncateKeepsFirstSix ==
    (Done /\ ~IsBlank(rawText)
          /\ (OverflowHandling = "truncate" \/ Len(lines) <= VESTABOARD_ROWS)) =>
        /\ result.kind = "return"
        /\ processedLines = KeptLines
        /\ Len(Rows) = VESTABOARD_ROWS

\* more than 6 wrapped lines under 'truncate'
C10_Witness ==
    /\ HasReturned
    /\ OverflowHandling = "truncate"
    /\ Len(lines) > VESTABOARD_ROWS
    /\ Len(processedLines) = VESTABOARD_ROWS


(***************************************************************************)
(* C11. Under 'error' the call throws exactly when the text wraps into     *)
(* more than 6 lines; the error carries the number of wrapped lines and    *)
(* the limit 6 and no text is returned. Under the other policies nothing   *)
(* is thrown.                                                              *)
(***************************************************************************)
C11_ErrorIffOverflow ==
    Done =>
        /\ HasThrown <=> (OverflowHandling = "error" /\ Len(lines) > VESTABOARD_ROWS)
        /\ HasThrown => /\ result.count = Len(lines)
                        /\ result.max = VESTABOARD_ROWS
                        /\ result.text = << >>

\* a text of more than 6 lines has thrown, with its count
C11_Witness ==
    /\ HasThrown
    /\ result.count > VESTABOARD_ROWS

\* exactly 6 lines under 'error': returned
C11_WitnessFull ==
    /\ HasReturned
    /\ OverflowHandling = "error"
    /\ Len(lines) = VESTABOARD_ROWS

(***************************************************************************)
(* C12. Under 'ellipsis' with more than 6 wrapped lines, lines 1 to 5 are  *)
(* the first five wrapped lines and line 6 is a prefix of the sixth        *)
(* wrapped line that ends between two display units (not inside the        *)
(* placeholder of a directive), followed by '...', of at most 22 units.    *)
(***************************************************************************)
\* the first n characters of line end between two units
CutOnUnit(line, n) ==
    \A at \in 0..(Len(line) - 1) :
        PlaceholderMatchLen(line, at) > 0 =>
            ~(at < n /\ n < at + PlaceholderMatchLen(line, at))

C12_EllipsisLastLine ==
    (HasReturned /\ OverflowHandling = "ellipsis" /\ Len(lines) > VESTABOARD_ROWS) =>
        /\ Len(processedLines) = VESTABOARD_ROWS
        /\ SubSeq(processedLines, 1, VESTABOARD_ROWS - 1)
              = SubSeq(lines, 1, VESTABOARD_ROWS - 1)
        /\ LET last == processedLines[VESTABOARD_ROWS]
               sixth == lines[VESTABOARD_ROWS]
               n == Len(last) - Len(ELLIPSIS)
           IN  /\ n >= 0 /\ n <= Len(sixth)
               /\ last = SubSeq(sixth, 1, n) \o ELLIPSIS
               /\ CutOnUnit(sixth, n)
               /\ getEffectiveLength(last) <= VESTABOARD_COLS

(***************************************************************************)
(* C13. The k lines kept (1 <= k <= 6) are rows of the returned text in    *)
(* their order: rows 1..k under 'top', the last k rows under 'bottom' and  *)
(* the k rows below floor((6-k)/2) blank rows under 'middle'. Every other  *)
(* row holds nothing but blanks.                                           *)
(***************************************************************************)
BlankRowsAbove ==
    LET k == Len(processedLines)
    IN  IF VerticalAlign = "bottom" THEN VESTABOARD_ROWS - k
        ELSE IF VerticalAlign = "middle" THEN (VESTABOARD_ROWS - k) \div 2
        ELSE 0

\* the kept lines as the rows show them: aligned, their color codes restored
ContentRows ==
    SplitNewline(restoreColorCodes(
        Join(MapLines(processedLines,
                      LAMBDA line : applyHorizontalAlignment(line, HorizontalAlign)),
             <<"\n">>),
        colorCodes))

C13_VerticalPlacement ==
    (HasReturned /\ ~IsBlank(rawText)) =>
        LET k == Len(processedLines)
            above == BlankRowsAbove
        IN  /\ k >= 1 /\ k <= VESTABOARD_ROWS
            /\ Len(Rows) = VESTABOARD_ROWS
            /\ SubSeq(Rows, above + 1, above + k) = ContentRows
            /\ \A r \in (1..above) \cup ((above + k + 1)..VESTABOARD_ROWS) :
                  \A i \in 1..Len(Rows[r]) : Rows[r][i] = " "

\* one line in the middle: 2 blank rows above it and 3 below
C13_Witness ==
    /\ HasReturned
    /\ VerticalAlign = "middle"
    /\ Len(processedLines) = 1
    /\ Len(Rows) = VESTABOARD_ROWS
    /\ Len(Trim(Rows[3])) > 0

(***************************************************************************)
(* C14. Under 'right' a row whose content has L <= 22 display units is     *)
(* 22-L blanks and then the content; under 'center' it is floor((22-L)/2)  *)
(* blanks, the content and the remaining blanks.                           *)
(***************************************************************************)
PaddedRow(shown, horizontalAlign) ==
    LET content == Trim(shown)
        padding == VESTABOARD_COLS - DisplayLength(content)
        before == IF horizontalAlign = "right" THEN padding ELSE padding \div 2
    IN  padding >= 0 =>
            shown = Rep(" ", before) \o content \o Rep(" ", padding - before)

C14_RightAndCenter ==
    (HasReturned /\ ~IsBlank(rawText) /\ HorizontalAlign \in {"right", "center"}) =>
        \A r \in 1..Len(Rows) : PaddedRow(Rows[r], HorizontalAlign)

(***************************************************************************)
(* C15. Under 'left' (the default) every row of the returned text, the     *)
(* blank rows included, is its content followed by blanks up to exactly 22 *)
(* display units.                                                          *)
(***************************************************************************)
C15_LeftPadsRight ==
    (HasReturned /\ ~IsBlank(rawText) /\ HorizontalAlign = "left") =>
        \A r \in 1..Len(Rows) :
            /\ DisplayLength(Rows[r]) = VESTABOARD_COLS
            /\ Rows[r] = TrimEnd(Rows[r])
                           \o Rep(" ", VESTABOARD_COLS - DisplayLength(TrimEnd(Rows[r])))

(***************************************************************************)
(* VBML_CHARACTER_MAP: the keys and their codes. Object.entries lists the  *)
(* integer-like keys '0'..'9' first and then the others as written; every  *)
(* code belongs to one key, so the order does not show.                    *)
(***************************************************************************)
CODE_ROWS == 6
CODE_COLS == 22

CharKeys ==
    <<"0","1","2","3","4","5","6","7","8","9",
      "A","B","C","D","E","F","G","H","I","J","K","L","M",
      "N","O","P","Q","R","S","T","U","V","W","X","Y","Z",
      "!","@","#","$","(",")",
      "-","+","&","=",";",":","'","\"","%",",",
      ".","/","?"," ">>
CharValues ==
    <<27,28,29,30,31,32,33,34,35,36,
      1,2,3,4,5,6,7,8,9,10,11,12,13,
      14,15,16,17,18,19,20,21,22,23,24,25,26,
      37,38,39,40,41,42,
      44,46,47,48,49,50,52,53,54,55,
      56,59,60,0>>

VBML_CHARACTER_MAP ==
    [k \in 1..Len(CharKeys) |-> [key |-> <<CharKeys[k]>>, code |-> CharValues[k]]]
    \o [k \in 1..Len(ColorNames) |->
           [key |-> <<"{">> \o ColorNames[k] \o <<"}">>, code |-> 62 + k]]

\* VBML_CHARACTER_MAP[key] !== undefined, and VBML_CHARACTER_MAP[key]
MapHas(key) == \E k \in 1..Len(VBML_CHARACTER_MAP) : VBML_CHARACTER_MAP[k].key = key
MapGet(key) ==
    VBML_CHARACTER_MAP[CHOOSE k \in 1..Len(VBML_CHARACTER_MAP) :
                           VBML_CHARACTER_MAP[k].key = key].code
\* if (VBML_CHARACTER_MAP[key]): defined and not 0
MapTruthy(key) == MapHas(key) /\ MapGet(key) # 0

(***************************************************************************)
(* vbmlToCharacterCodes                                                    *)
(***************************************************************************)
\* Array(6).fill(null).map(() => Array(22).fill(0))
NewMatrix == Rep(Rep(0, CODE_COLS), CODE_ROWS)

\* matrix[r][c] = code on JavaScript arrays: a TypeError when matrix[r] is
\* undefined; an index past the end of the row lengthens the row, the
\* cells between being empty (shown as -1)
WriteCell(m, r, c, code) ==
    IF r >= Len(m) THEN [thrown |-> TRUE, matrix |-> m]
    ELSE IF c < Len(m[r + 1])
    THEN [thrown |-> FALSE, matrix |-> [m EXCEPT ![r + 1][c + 1] = code]]
    ELSE [thrown |-> FALSE,
          matrix |-> [m EXCEPT ![r + 1] =
                         m[r + 1] \o Rep(-1, c - Len(m[r + 1])) \o <<code>>]]

\* the test after the branches with > for >=: the row is left one cell late
NextCellLate(r, c) ==
    IF c > CODE_COLS THEN [row |-> r + 1, col |-> 0] ELSE [row |-> r, col |-> c]

\* if (col >= 22) { row++; col = 0; }
NextCell(r, c) ==
    IF c >= CODE_COLS THEN [row |-> r + 1, col |-> 0] ELSE [row |-> r, col |-> c]

\* the branch for '{' without i = endIndex: the name is scanned again
ColorBranchNoSkip(text, i, r, c, m) ==
    LET endIndex == IndexOf(text, <<"}">>, i)
        colorCode == IF endIndex = -1 THEN << >>
                     ELSE LowerCased(Substring(text, i, endIndex + 1))
    IN  IF endIndex # -1 /\ MapTruthy(colorCode)
        THEN LET w == WriteCell(m, r, c, MapGet(colorCode))
             IN  [thrown |-> w.thrown, matrix |-> w.matrix, row |-> r,
                  col |-> c + 1, i |-> i]
        ELSE [thrown |-> FALSE, matrix |-> m, row |-> r, col |-> c, i |-> i]

\* the branch for char === '{'
ColorBranch(text, i, r, c, m) ==
    LET endIndex == IndexOf(text, <<"}">>, i)
        colorCode == IF endIndex = -1 THEN << >>
                     ELSE LowerCased(Substring(text, i, endIndex + 1))
    IN  IF endIndex # -1 /\ MapTruthy(colorCode)
        THEN LET w == WriteCell(m, r, c, MapGet(colorCode))
             IN  [thrown |-> w.thrown, matrix |-> w.matrix, row |-> r,
                  col |-> c + 1, i |-> endIndex]
        ELSE [thrown |-> FALSE, matrix |-> m, row |-> r, col |-> c, i |-> i]

\* the loop body without toUpperCase: a lower-case letter is not in the map
LoopBodyNoUpperCase(text, i, r, c, m) ==
    LET char == text[i + 1]
        branch ==
            IF char = "{" THEN ColorBranch(text, i, r, c, m)
            ELSE IF char = "\n"
            THEN [thrown |-> FALSE, matrix |-> m, row |-> r + 1, col |-> 0, i |-> i]
            ELSE IF MapHas(<<char>>)
            THEN LET w == WriteCell(m, r, c, MapGet(<<char>>))
                 IN  [thrown |-> w.thrown, matrix |-> w.matrix, row |-> r,
                      col |-> c + 1, i |-> i]
            ELSE [thrown |-> FALSE, matrix |-> m, row |-> r, col |-> c, i |-> i]
        cell == NextCell(branch.row, branch.col)
    IN  [thrown |-> branch.thrown, matrix |-> branch.matrix,
         row |-> cell.row, col |-> cell.col, i |-> branch.i + 1]

\* one pass of the loop body at index i, the i++ of the loop included
LoopBody(text, i, r, c, m) ==
    LET char == ToUpperCase(text[i + 1])
        branch ==
            IF char = "{" THEN ColorBranch(text, i, r, c, m)
            ELSE IF char = "\n"
            THEN [thrown |-> FALSE, matrix |-> m, row |-> r + 1, col |-> 0, i |-> i]
            ELSE IF MapHas(<<char>>)
            THEN LET w == WriteCell(m, r, c, MapGet(<<char>>))
                 IN  [thrown |-> w.thrown, matrix |-> w.matrix, row |-> r,
                      col |-> c + 1, i |-> i]
            ELSE [thrown |-> FALSE, matrix |-> m, row |-> r, col |-> c, i |-> i]
        cell == NextCell(branch.row, branch.col)
    IN  [thrown |-> branch.thrown, matrix |-> branch.matrix,
         row |-> cell.row, col |-> cell.col, i |-> branch.i + 1]

\* i < vbml.length && row < 6
LoopGuard(text, i, r) == i < Len(text) /\ r < CODE_ROWS

(***************************************************************************)
(* characterCodesToText                                                    *)
(***************************************************************************)
\* codeToChar[code] || '?' without the fallback: 'undefined' is joined
CodeToCharNoFallback(code) ==
    LET hits == {k \in 1..Len(VBML_CHARACTER_MAP) : VBML_CHARACTER_MAP[k].code = code}
    IN  IF code = 0 THEN <<" ">>
        ELSE IF hits = {} THEN <<"u","n","d","e","f","i","n","e","d">>
        ELSE VBML_CHARACTER_MAP[CHOOSE k \in hits : \A j \in hits : j <= k].key

\* codeToChar[code] || '?': codeToChar holds for each code the key of the
\* last entry with that code, and ' ' for 0
CodeToChar(code) ==
    LET hits == {k \in 1..Len(VBML_CHARACTER_MAP) : VBML_CHARACTER_MAP[k].code = code}
    IN  IF code = 0 THEN <<" ">>
        ELSE IF hits = {} THEN <<"?">>
        ELSE VBML_CHARACTER_MAP[CHOOSE k \in hits : \A j \in hits : j <= k].key

characterCodesToText(m) ==
    Join([r \in 1..Len(m) |-> Concat([c \in 1..Len(m[r]) |-> CodeToChar(m[r][c])])],
         <<"\n">>)

(***************************************************************************)
(* The texts posted and the layouts read. A posted text is a few tokens, a *)
(* grid of 6 full lines (what the alignment stage makes under 'center' and *)
(* 'right'), or a text that does not fit the grid.                         *)
(***************************************************************************)
MaxCodeTokens == 3

CodeTokens ==
    { <<"a">>, <<"B">>, <<" ">>, <<"\n">>, <<"{">>, <<"}">>, <<"~">>,
      RED_UPPER, BLUE_MIXED }

RECURSIVE CodeTokenSeqs(_)
CodeTokenSeqs(n) ==
    IF n = 0 THEN { << >> }
    ELSE LET shorter == CodeTokenSeqs(n - 1)
         IN  shorter \cup { Append(q, t) : q \in {x \in shorter : Len(x) = n - 1},
                                            t \in CodeTokens }

TokenTexts == { Concat(q) : q \in CodeTokenSeqs(MaxCodeTokens) } \ { << >> }

\* lines of exactly 22 display units
FULL_LINE == Rep("A", CODE_COLS)
COLOR_LINE == BLUE_MIXED \o Rep("b", CODE_COLS - 2) \o RED
GridLines == { FULL_LINE, COLOR_LINE }
GridTexts == { Join(g, <<"\n">>) : g \in [1..CODE_ROWS -> GridLines] }

LongTextsToPost ==
    { FULL_LINE, COLOR_LINE, Rep("c", CODE_COLS - 1), Rep("c", CODE_COLS + 1),
      Rep("c", CODE_ROWS * CODE_COLS + 1),
      Join(Rep(<<"d">>, CODE_ROWS + 2), <<"\n">>),
      Rep("\n", CODE_ROWS + 1) \o <<"d">>,
      Rep("e", CODE_COLS - 1) \o RED \o BLUE_MIXED \o <<"\n", "f">> }

PostedTexts == TokenTexts \cup GridTexts \cup LongTextsToPost

\* rows of codes a device may hold: blank, letters, and the color codes with
\* codes that are not in the map
BLANK_CODES == Rep(0, CODE_COLS)
LETTER_CODES == [c \in 1..CODE_COLS |-> c]
MIXED_CODES ==
    <<63, 64, 65, 66, 67, 68, 69, 43, 45, 51, 57, 58, 61, 62, 70, 71, 255,
      0, 60, 27, 36, 37>>
Layouts == [1..CODE_ROWS -> { BLANK_CODES, LETTER_CODES, MIXED_CODES }]

(***************************************************************************)
(* The tools. post-message: vbmlToCharacterCodes(text), one action for     *)
(* each pass of its loop, then the request to the device and               *)
(* characterCodesToText of the codes. get-current-message: the request     *)
(* and characterCodesToText of the layout received.                        *)
(***************************************************************************)
PostMessage ==
    /\ tool = "idle"
    /\ \E text \in PostedTexts : vbml' = text
    /\ matrix' = NewMatrix
    /\ row' = 0
    /\ col' = 0
    /\ idx' = 0
    /\ tool' = "loop"
    /\ UNCHANGED displayText
    /\ UNCHANGED formatVars
    /\ UNCHANGED serverVars

EncodeStep ==
    /\ tool = "loop"
    /\ LoopGuard(vbml, idx, row)
    /\ LET next == LoopBody(vbml, idx, row, col, matrix)
       IN  /\ matrix' = next.matrix
           /\ row' = next.row
           /\ col' = next.col
           /\ idx' = next.i
           /\ tool' = IF next.thrown THEN "threw" ELSE "loop"
    /\ UNCHANGED <<vbml, displayText>>
    /\ UNCHANGED formatVars
    /\ UNCHANGED serverVars

EncodeReturn ==
    /\ tool = "loop"
    /\ ~LoopGuard(vbml, idx, row)
    /\ tool' = "encoded"
    /\ UNCHANGED <<vbml, idx, row, col, matrix, displayText>>
    /\ UNCHANGED formatVars
    /\ UNCHANGED serverVars

\* the request failed: no text is made
PostFailed ==
    /\ tool = "encoded"
    /\ tool' = "failed"
    /\ UNCHANGED <<vbml, idx, row, col, matrix, displayText>>
    /\ UNCHANGED formatVars
    /\ UNCHANGED serverVars

DisplayPosted ==
    /\ tool = "encoded"
    /\ displayText' = characterCodesToText(matrix)
    /\ tool' = "posted"
    /\ UNCHANGED <<vbml, idx, row, col, matrix>>
    /\ UNCHANGED formatVars
    /\ UNCHANGED serverVars

GetCurrentMessage ==
    /\ tool = "idle"
    /\ \E response \in Layouts :
          /\ matrix' = response
          /\ displayText' = characterCodesToText(response)
    /\ tool' = "read"
    /\ UNCHANGED <<vbml, idx, row, col>>
    /\ UNCHANGED formatVars
    /\ UNCHANGED serverVars

GetFailed ==
    /\ tool = "idle"
    /\ tool' = "failed"
    /\ UNCHANGED <<vbml, idx, row, col, matrix, displayText>>
    /\ UNCHANGED formatVars
    /\ UNCHANGED serverVars

NextCodes ==
    \/ PostMessage
    \/ EncodeStep
    \/ EncodeReturn
    \/ PostFailed
    \/ DisplayPosted
    \/ GetCurrentMessage
    \/ GetFailed

SpecCodes == InitOver({ << >> }) /\ [][NextCodes]_vars

(***************************************************************************)
(* Vocabulary of the properties of the codes.                              *)
(***************************************************************************)
\* the matrix has 6 rows of 22 cells, each holding a code
IsGrid(m) ==
    /\ Len(m) = CODE_ROWS
    /\ \A r \in 1..Len(m) : /\ Len(m[r]) = CODE_COLS
                            /\ \A c \in 1..Len(m[r]) : m[r][c] >= 0

\* the cells the cursor has passed, counted along the rows
CursorAt(r, c) == r * CODE_COLS + c

\* the code of a color directive as written in a text
DirectiveCode(directive) ==
    62 + CHOOSE k \in 1..Len(ColorNames) :
             LowerCased(directive) = <<"{">> \o ColorNames[k] \o <<"}">>

\* the character is in the symbol table once upper-cased
IsSymbol(c) == \E k \in 1..Len(CharKeys) : CharKeys[k] = ToUpperCase(c)
SymbolCode(c) == CharValues[CHOOSE k \in 1..Len(CharKeys) : CharKeys[k] = ToUpperCase(c)]

(***************************************************************************)
(* C16. While vbmlToCharacterCodes runs and when it has returned, the      *)
(* matrix has exactly 6 rows of 22 cells; the function never fails; a pass *)
(* of the loop changes no cell but the one under the cursor, and then the  *)
(* cursor has 0 <= row <= 5 and 0 <= col <= 21. The matrix begins with 0   *)
(* in every cell, so a cell never written holds 0.                         *)
(***************************************************************************)
C16_WritesInsideGrid ==
    /\ [](tool \in {"loop", "encoded", "posted"} => IsGrid(matrix))
    /\ [](tool # "threw")
    /\ [][(tool = "idle" /\ tool' = "loop") =>
              \A r \in 1..CODE_ROWS : \A c \in 1..CODE_COLS : matrix'[r][c] = 0]_vars
    /\ [][(tool = "loop" /\ matrix' # matrix) =>
              /\ row \in 0..(CODE_ROWS - 1)
              /\ col \in 0..(CODE_COLS - 1)
              /\ \A r \in 1..CODE_ROWS : \A c \in 1..CODE_COLS :
                    (r # row + 1 \/ c # col + 1) => matrix'[r][c] = matrix[r][c]]_vars

\* a text longer than the grid: the last cell is written and the rest of the
\* text is left
C16_Witness ==
    /\ tool = "encoded"
    /\ row = CODE_ROWS
    /\ idx < Len(vbml)
    /\ matrix[CODE_ROWS][CODE_COLS] # 0

(***************************************************************************)
(* C17. A pass of the loop inside the grid takes one cell for a known      *)
(* color directive {name}, in any case, and goes on after its '}'; takes   *)
(* one cell for a character that is in the symbol table once upper-cased;  *)
(* takes no cell for any other character, an unterminated '{' and a '{'    *)
(* with an unknown name included, and goes on with the next character.     *)
(***************************************************************************)
C17_OneCellPerSymbol ==
    [][(tool = "loop" /\ idx' # idx) =>
          LET n == ColorMatchLen(vbml, idx)
              c == vbml[idx + 1]
          IN  IF n > 0
              THEN /\ matrix' = [matrix EXCEPT ![row + 1][col + 1] =
                                    DirectiveCode(Substring(vbml, idx, idx + n))]
                   /\ CursorAt(row', col') = CursorAt(row, col) + 1
                   /\ idx' = idx + n
              ELSE IF c = "\n"
              THEN /\ matrix' = matrix
                   /\ idx' = idx + 1
              ELSE IF IsSymbol(c)
              THEN /\ matrix' = [matrix EXCEPT ![row + 1][col + 1] = SymbolCode(c)]
                   /\ CursorAt(row', col') = CursorAt(row, col) + 1
                   /\ idx' = idx + 1
              ELSE /\ matrix' = matrix
                   /\ row' = row /\ col' = col
                   /\ idx' = idx + 1]_vars

\* a '{' with no known name took no cell and the letter after it took the
\* first one
C17_Witness ==
    /\ tool = "loop"
    /\ Len(vbml) >= 2
    /\ vbml[1] = "{"
    /\ ColorMatchLen(vbml, 0) = 0
    /\ IsSymbol(vbml[2])
    /\ idx = 2
    /\ row = 0 /\ col = 1
    /\ matrix[1][1] = SymbolCode(vbml[2])

(***************************************************************************)
(* C18. For a text of 6 lines of exactly 22 display units joined by        *)
(* newlines, the matrix returned holds in cell [r][c] the code of the c-th *)
(* unit of line r.                                                         *)
(***************************************************************************)
IsGridText(text) ==
    /\ Len(SplitNewline(text)) = CODE_ROWS
    /\ \A r \in 1..CODE_ROWS : DisplayLength(SplitNewline(text)[r]) = CODE_COLS

\* the codes of the units of a line, 0 for a character that has none
RECURSIVE UnitCodesFrom(_, _)
UnitCodesFrom(s, i) ==
    IF i >= Len(s) THEN << >>
    ELSE LET n == ColorMatchLen(s, i)
         IN  IF n > 0
             THEN <<DirectiveCode(Substring(s, i, i + n))>> \o UnitCodesFrom(s, i + n)
             ELSE <<IF IsSymbol(s[i + 1]) THEN SymbolCode(s[i + 1]) ELSE 0>>
                  \o UnitCodesFrom(s, i + 1)

C18_GridPositionsKept ==
    (tool = "encoded" /\ IsGridText(vbml)) =>
        \A r \in 1..CODE_ROWS : matrix[r] = UnitCodesFrom(SplitNewline(vbml)[r], 0)

(***************************************************************************)
(* C19. characterCodesToText of a 6x22 matrix is 6 lines joined by         *)
(* newlines; a cell shows as a blank for 0, as the lower-case {name} for   *)
(* 63 to 69, as its symbol for any other code of the table and as '?' for  *)
(* a code that is not in the table. It does not fail on such a code.       *)
(***************************************************************************)
Glyph(code) ==
    IF code = 0 THEN <<" ">>
    ELSE IF code \in 63..69 THEN <<"{">> \o ColorNames[code - 62] \o <<"}">>
    ELSE IF \E k \in 1..Len(CharValues) : CharValues[k] = code
    THEN <<CharKeys[CHOOSE k \in 1..Len(CharValues) : CharValues[k] = code]>>
    ELSE <<"?">>

GlyphLine(codes) == Concat([c \in 1..Len(codes) |-> Glyph(codes[c])])

C19_DecodeTotal ==
    (tool \in {"read", "posted"} /\ IsGrid(matrix)) =>
        /\ Len(SplitNewline(displayText)) = CODE_ROWS
        /\ \A r \in 1..CODE_ROWS : SplitNewline(displayText)[r] = GlyphLine(matrix[r])

\* a layout with codes that are not in the table has been read
C19_Witness ==
    /\ tool = "read"
    /\ matrix[1] = MIXED_CODES
    /\ Occurrences(SplitNewline(displayText)[1], "?") >= 10

(***************************************************************************)
(* C20. For a posted text of one line of at most 22 display units, all     *)
(* symbol-table characters (in either case) and known color directives,    *)
(* the text made from its codes is the text with its letters upper-cased   *)
(* and its directive names lower-cased, then blanks up to 22 units, then   *)
(* five lines of 22 blanks.                                                *)
(***************************************************************************)
IsSymbolLine(s) ==
    /\ Len(s) > 0
    /\ DisplayLength(s) <= CODE_COLS
    /\ \A i \in 1..Len(WithoutDirectives(s)) : IsSymbol(WithoutDirectives(s)[i])

RECURSIVE NormalizedFrom(_, _)
NormalizedFrom(s, i) ==
    IF i >= Len(s) THEN << >>
    ELSE LET n == ColorMatchLen(s, i)
         IN  IF n > 0
             THEN LowerCased(Substring(s, i, i + n)) \o NormalizedFrom(s, i + n)
             ELSE <<ToUpperCase(s[i + 1])>> \o NormalizedFrom(s, i + 1)

C20_RoundTrip ==
    (tool = "posted" /\ IsSymbolLine(vbml)) =>
        displayText =
            Join(<<NormalizedFrom(vbml, 0)
                     \o Rep(" ", CODE_COLS - DisplayLength(vbml))>>
                 \o Rep(Rep(" ", CODE_COLS), CODE_ROWS - 1),
                 <<"\n">>)

\* a line of 22 units with directives in mixed case has made the round trip
C20_Witness ==
    /\ tool = "posted"
    /\ IsSymbolLine(vbml)
    /\ DisplayLength(vbml) = CODE_COLS
    /\ Len(DirectivesOf(vbml)) = 2
    /\ \E i \in 1..Len(vbml) : ToUpperCase(vbml[i]) # vbml[i]

(***************************************************************************)
(* Several calls of formatTextForVestaboard, one after the other: the      *)
(* module-level pattern object, and so its lastIndex, lives on from call   *)
(* to call.                                                                *)
(***************************************************************************)
MaxCalls == 3

\* an empty and a blank text, texts with 0, 1 and 2 directives, and a text
\* of 7 lines, which throws under 'error'
CallTexts ==
    { << >>, <<" ">>, <<"a">>, RED_UPPER \o <<"a">>,
      <<"a", " ">> \o BLUE_MIXED \o RED,
      Join(Rep(FILL, VESTABOARD_ROWS + 1), <<" ">>) }

CallAgain ==
    /\ pc = "done"
    /\ calls < MaxCalls
    /\ pc' = "call"
    /\ rawText' \in CallTexts
    /\ options' = NoOptions
    /\ colorCodes' = << >>
    /\ words' = << >>
    /\ lines' = << >>
    /\ processedLines' = << >>
    /\ result' = NoResult
    /\ UNCHANGED <<lastIndex, calls>>
    /\ UNCHANGED codesVars
    /\ UNCHANGED serverVars

NextCalls ==
    \/ Call
    \/ CallAgain

SpecCalls == InitOver(CallTexts) /\ [][NextCalls]_vars

(***************************************************************************)
(* C21. Whatever calls came before, the lastIndex of the pattern is 0 when *)
(* a call begins, and the call returns (or throws) what it would as the    *)
(* first call with its text and options.                                   *)
(***************************************************************************)
C21_SameResultEveryCall ==
    /\ pc = "call" => lastIndex = 0
    /\ Done => result = formatTextForVestaboard(rawText, options, 0)

\* a third call, of a text with directives, has returned
C21_Witness ==
    /\ HasReturned
    /\ calls = 3
    /\ Len(colorCodes) >= 1


(***************************************************************************)
(* C23. The wrapped lines follow the greedy rule in display units: the     *)
(* words of a line are joined by exactly one blank, a line that holds two  *)
(* or more words shows at most 22 units (a word is appended only when      *)
(* current length + 1 + word length <= 22), and a word starts a new line   *)
(* only when the line before it + 1 + the word shows more than 22 units    *)
(* (an exact fit is packed). Lengths are those of the text as it is shown, *)
(* a color directive counting as one unit.                                 *)
(***************************************************************************)
ShownLength(s) == DisplayLength(restoreColorCodes(s, colorCodes))

\* the number of characters of the words on the lines before the k-th
CharsBeforeLine(k) ==
    Len(Concat(Concat(MapLines(SubSeq(lines, 1, k - 1), SplitWhitespace))))

\* the number of characters of the words before the j-th
CharsBeforeWord(j) == Len(Concat(SubSeq(words, 1, j - 1)))

C23_GreedyPacking ==
    Done =>
        /\ \A k \in 1..Len(lines) :
              LET pieces == SplitWhitespace(lines[k])
              IN  /\ lines[k] = Join(pieces, <<" ">>)
                  /\ Len(pieces) >= 2 => ShownLength(lines[k]) <= VESTABOARD_COLS
        /\ \A k \in 2..Len(lines) : \A j \in 1..Len(words) :
              CharsBeforeLine(k) = CharsBeforeWord(j) =>
                  ShownLength(lines[k - 1]) + 1 + ShownLength(words[j])
                      > VESTABOARD_COLS


(***************************************************************************)
(* C24. Every line that buildLinesWithWordWrapping produces has an         *)
(* effective length (getEffectiveLength) between 1 and 22 and holds no     *)
(* newline.                                                                *)
(***************************************************************************)
C24_LinesFitRow ==
    Done =>
        \A k \in 1..Len(lines) :
            /\ getEffectiveLength(lines[k]) >= 1
            /\ getEffectiveLength(lines[k]) <= VESTABOARD_COLS
            /\ Occurrences(lines[k], "\n") = 0


(***************************************************************************)
(* The Workers entry point (worker.ts): AuthUtils.validateApiKey,          *)
(* makeVestaboardRequest, handleCallTool, createSSEResponse and fetch.     *)
(***************************************************************************)
BEARER == <<"B", "e", "a", "r", "e", "r", " ">>
API_KEY == <<"k">>
WRONG_KEY == <<"x">>
DEVICE_KEY == <<"v">>

\* validateApiKey that compares no key: any header is taken
validateApiKeyAnyHeader(request, env) ==
    LET authRequired == env.MCP_AUTH_REQUIRED = "true"
    IN  IF ~authRequired THEN TRUE
        ELSE LET expectedApiKey == env.MCP_API_KEY
             IN  IF expectedApiKey = NONE THEN FALSE
                 ELSE LET headerName == IF env.MCP_AUTH_HEADER_NAME = ""
                                        THEN "Authorization"
                                        ELSE env.MCP_AUTH_HEADER_NAME
                          authHeader == request.headers[headerName]
                      IN  authHeader # NONE

validateApiKey(request, env) ==
    LET authRequired == env.MCP_AUTH_REQUIRED = "true"
    IN  IF ~authRequired THEN TRUE
        ELSE LET expectedApiKey == env.MCP_API_KEY
             IN  IF expectedApiKey = NONE THEN FALSE
                 ELSE LET headerName == IF env.MCP_AUTH_HEADER_NAME = ""
                                        THEN "Authorization"
                                        ELSE env.MCP_AUTH_HEADER_NAME
                          authHeader == request.headers[headerName]
                      IN  IF authHeader = NONE THEN FALSE
                          ELSE LET providedKey ==
                                       IF StartsWith(authHeader, BEARER, 0)
                                       THEN Substring(authHeader, 7, Len(authHeader))
                                       ELSE authHeader
                               IN  providedKey = expectedApiKey

\* what the fetch to the device API does: it rejects, answers with an error
\* status, with a body that is not JSON, with the JSON null, or with data
DeviceOutcomes == {"rejected", "http error", "not json", "null", "data"}

\* makeVestaboardRequest that does not look at response.ok
makeVestaboardRequestAnyStatus(method, env, outcome) ==
    IF env.VESTABOARD_READ_WRITE_KEY = NONE
    THEN [device |-> NoDevice, truthy |-> FALSE]
    ELSE [device |-> [sent |-> TRUE, method |-> method, outcome |-> outcome],
          truthy |-> outcome \in {"data", "http error"}]

\* the device record says whether a request was sent, and truthy whether the
\* value returned is one (null is returned for every failure)
makeVestaboardRequest(method, env, outcome) ==
    IF env.VESTABOARD_READ_WRITE_KEY = NONE
    THEN [device |-> NoDevice, truthy |-> FALSE]
    ELSE [device |-> [sent |-> TRUE, method |-> method, outcome |-> outcome],
          truthy |-> outcome = "data"]

ToolThrew == [thrown |-> TRUE, code |-> 0, text |-> "", device |-> NoDevice]
ToolText(text, device) ==
    [thrown |-> FALSE, code |-> 0, text |-> text, device |-> device]

handleCallTool(body, env, outcome) ==
    IF ~body.hasParams THEN ToolThrew
    ELSE IF body.name = "get-current-message"
    THEN LET got == makeVestaboardRequest("GET", env, outcome)
         IN  IF ~got.truthy
             THEN ToolText("Failed to get current message", got.device)
             ELSE ToolText("Current Vestaboard message", got.device)
    ELSE IF body.name = "post-message"
    THEN IF ~body.hasArguments THEN ToolThrew
         ELSE IF body.text = NONE
         THEN ToolText("No text provided for Vestaboard message.", NoDevice)
         ELSE LET posted == makeVestaboardRequest("POST", env, outcome)
              IN  IF ~posted.truthy
                  THEN ToolText("Failed to post message", posted.device)
                  ELSE ToolText("Successfully posted message", posted.device)
    ELSE [thrown |-> FALSE, code |-> -32601, text |-> "Tool not found",
          device |-> NoDevice]


\* what fetch did with a request: the status of the Response, the JSON-RPC
\* error code of its body (0 when it has none), the handler the request was
\* dispatched to, the text of a tool's result, and the request to the device
Answer(status, code, handler, text, device) ==
    [status |-> status, code |-> code, handler |-> handler, text |-> text,
     device |-> device]

\* the catch of the POST branch
ParseError(handler) == Answer(400, -32700, handler, "Parse error", NoDevice)

\* the POST branch of fetch for /mcp
PostAnswer(body, env, outcome) ==
    IF ~body.valid THEN ParseError("")
    ELSE IF ~body.isObject THEN ParseError("")
    ELSE IF body.method = "initialize"
    THEN Answer(200, 0, "initialize", "", NoDevice)
    ELSE IF body.method = "initialized"
    THEN Answer(204, 0, "initialized", "", NoDevice)
    ELSE IF body.method = "tools/list"
    THEN Answer(200, 0, "tools/list", "", NoDevice)
    ELSE IF body.method = "tools/call"
    THEN LET called == handleCallTool(body, env, outcome)
         IN  IF called.thrown THEN ParseError("tools/call")
             ELSE Answer(200, called.code, "tools/call", called.text,
                         called.device)
    ELSE Answer(200, -32601, "default", "Method not found", NoDevice)

\* crypto.randomUUID(): an id that no stream before had
generateSessionId == <<"u">> \o NumberToString(Len(streams) + 1)

SessionsHas(sessionId) == \E entry \in sessions : entry[1] = sessionId
SessionsDelete(sessionId) == {entry \in sessions : entry[1] # sessionId}
SessionsSet(sessionId, stream) ==
    SessionsDelete(sessionId) \cup {<<sessionId, stream>>}

\* the stream is made and started: its entry is set, its timer runs
createSSEResponse(sessionId) ==
    /\ streams' = Append(streams, [sessionId |-> sessionId, open |-> TRUE,
                                   timer |-> TRUE, ticks |-> 0, pings |-> 0])
    /\ sessions' = SessionsSet(sessionId, Len(streams) + 1)

MaxStreams == 2

\* fetch(request, env) with env = bindings
Fetch(request) ==
    /\ served' = request
    /\ UNCHANGED bindings
    /\ UNCHANGED <<formatVars, codesVars, transportVars, expressVars>>
    /\ IF request.method = "OPTIONS"
       THEN /\ answer' = Answer(204, 0, "", "", NoDevice)
            /\ UNCHANGED <<sessions, streams>>
       ELSE IF request.pathname = "/health"
       THEN /\ answer' = Answer(200, 0, "", "", NoDevice)
            /\ UNCHANGED <<sessions, streams>>
       ELSE IF request.pathname = "/mcp" /\ ~validateApiKey(request, bindings)
       THEN /\ answer' = Answer(401, -32600, "", "Unauthorized", NoDevice)
            /\ UNCHANGED <<sessions, streams>>
       ELSE IF request.pathname = "/mcp" /\ request.method = "GET"
       THEN LET sessionId == IF request.headers["mcp-session-id"] # NONE
                             THEN request.headers["mcp-session-id"]
                             ELSE generateSessionId
            IN  /\ Len(streams) < MaxStreams
                /\ createSSEResponse(sessionId)
                /\ answer' = Answer(200, 0, "sse", "", NoDevice)
       ELSE IF request.pathname = "/mcp" /\ request.method = "POST"
       THEN /\ \E outcome \in DeviceOutcomes :
                  answer' = PostAnswer(request.body, bindings, outcome)
            /\ UNCHANGED <<sessions, streams>>
       ELSE IF request.pathname = "/"
       THEN /\ answer' = Answer(200, 0, "", "", NoDevice)
            /\ UNCHANGED <<sessions, streams>>
       ELSE /\ answer' = Answer(404, 0, "", "Not Found", NoDevice)
            /\ UNCHANGED <<sessions, streams>>

(***************************************************************************)
(* The envs and the requests of the entry point.                           *)
(***************************************************************************)
Envs ==
    [MCP_AUTH_REQUIRED : {"true", "TRUE"},
     MCP_API_KEY : {NONE, API_KEY},
     MCP_AUTH_HEADER_NAME : {"", "X-API-Key"},
     VESTABOARD_READ_WRITE_KEY : {NONE, DEVICE_KEY}]

\* the Authorization and X-API-Key headers of a request
AuthHeaders ==
    { Headers(a, NONE, NONE) :
        a \in {NONE, API_KEY, WRONG_KEY, BEARER \o API_KEY, BEARER \o WRONG_KEY} }
    \cup { Headers(NONE, BEARER \o API_KEY, NONE) }

WithSession(headers, sessionId) ==
    Headers(headers["Authorization"], headers["X-API-Key"], sessionId)

SessionHeaders == { NONE, <<"s">>, <<"u", "1">> }

JsonNull == [NoBody EXCEPT !.valid = TRUE]
JsonRpc(method) ==
    [valid |-> TRUE, isObject |-> TRUE, method |-> method, hasParams |-> FALSE,
     name |-> "", hasArguments |-> FALSE, text |-> NONE]
ToolCall(name, hasArguments, text) ==
    [JsonRpc("tools/call") EXCEPT !.hasParams = TRUE, !.name = name,
                                  !.hasArguments = hasArguments, !.text = text]

\* no body or one that is not JSON, the JSON null, and JSON-RPC requests
Bodies ==
    { NoBody, JsonNull, JsonRpc("initialize"), JsonRpc("initialized"),
      JsonRpc("tools/list"), JsonRpc("ping"), JsonRpc(""),
      JsonRpc("tools/call"),
      ToolCall("get-current-message", FALSE, NONE),
      ToolCall("post-message", FALSE, NONE),
      ToolCall("post-message", TRUE, NONE),
      ToolCall("post-message", TRUE, <<"H", "I">>),
      ToolCall("other", TRUE, NONE) }

Request(method, pathname, headers, body) ==
    [method |-> method, pathname |-> pathname, headers |-> headers,
     body |-> body]

SseRequests ==
    { Request("GET", "/mcp", WithSession(h, sessionId), NoBody) :
          h \in AuthHeaders, sessionId \in SessionHeaders }

Requests ==
    SseRequests
    \cup { Request("POST", "/mcp", h, body) : h \in AuthHeaders, body \in Bodies }
    \cup { Request("DELETE", "/mcp", h, NoBody) : h \in AuthHeaders }
    \cup { Request("OPTIONS", "/mcp", Headers(NONE, NONE, NONE), NoBody) }
    \cup { Request("GET", pathname, Headers(NONE, NONE, NONE), NoBody) :
               pathname \in {"/health", "/", "/other"} }

\* the Worker serves a request
Serve == \E request \in Requests : Fetch(request)

WorkerInit(envs) ==
    /\ FormatStart({ << >> })
    /\ ToolsIdle
    /\ WorkerLoaded(envs)
    /\ TransportNew
    /\ ExpressNew

NextWorker == Serve

SpecWorker == WorkerInit(Envs) /\ [][NextWorker]_vars


(***************************************************************************)
(* Vocabulary of the properties of the entry point.                        *)
(***************************************************************************)
IsMcpRequest(request) ==
    request.pathname = "/mcp" /\ request.method \in {"GET", "POST"}

AuthRequired == bindings.MCP_AUTH_REQUIRED = "true"

\* the configured auth header of the request holds the configured key, bare
\* or after 'Bearer '
CarriesKey(request) ==
    LET configured == IF bindings.MCP_AUTH_HEADER_NAME = "" THEN "Authorization"
                      ELSE bindings.MCP_AUTH_HEADER_NAME
    IN  /\ bindings.MCP_API_KEY # NONE
        /\ \/ request.headers[configured] = bindings.MCP_API_KEY
           \/ request.headers[configured] = BEARER \o bindings.MCP_API_KEY

\* the request was dispatched to a handler or reached the device
Handled == answer.handler # "" \/ answer.device.sent

(***************************************************************************)
(* C22. With MCP_AUTH_REQUIRED = 'true', a GET or POST to /mcp is handled  *)
(* (stream registered, method dispatched, device called) only if the       *)
(* configured auth header holds the configured key, bare or as             *)
(* 'Bearer <key>'; any other such request gets 401, no handler runs, the   *)
(* device is not called and sessions and streams stay as they were. With   *)
(* any other value of MCP_AUTH_REQUIRED no such request gets 401.          *)
(***************************************************************************)
C22_KeyGuardsMcp ==
    /\ []((IsMcpRequest(served) /\ AuthRequired) =>
              /\ Handled => CarriesKey(served)
              /\ ~CarriesKey(served) =>
                     /\ answer.status = 401
                     /\ answer.handler = ""
                     /\ ~answer.device.sent)
    /\ []((IsMcpRequest(served) /\ ~AuthRequired) => answer.status # 401)
    /\ [][(IsMcpRequest(served') /\ AuthRequired /\ ~CarriesKey(served')) =>
              /\ sessions' = sessions
              /\ streams' = streams]_vars

\* a tool call with the key after 'Bearer ' in the configured header reached
\* the device
C22_Witness ==
    /\ AuthRequired
    /\ bindings.MCP_AUTH_HEADER_NAME = "X-API-Key"
    /\ served.method = "POST"
    /\ served.pathname = "/mcp"
    /\ served.headers["X-API-Key"] = BEARER \o API_KEY
    /\ answer.handler = "tools/call"
    /\ answer.device.sent


(***************************************************************************)
(* C29. The POST branch answers -32700 'Parse error' with status 400 only  *)
(* when the body of the request is not valid JSON: a request that is valid *)
(* JSON and whose handler fails is not answered as a parse error.          *)
(***************************************************************************)
C29_ParseErrorOnlyForBadJson ==
    (served.method = "POST" /\ served.pathname = "/mcp") =>
        /\ answer.code = -32700 => ~served.body.valid
        /\ answer.status = 400 => ~served.body.valid

(***************************************************************************)
(* C30. post-message answers 'Successfully posted message' only when a     *)
(* POST was sent to the device and came back with a successful status and  *)
(* a JSON body; when text is missing or empty nothing is sent to the       *)
(* device; when VESTABOARD_READ_WRITE_KEY is absent nothing is sent and    *)
(* the tool answers that it failed.                                        *)
(***************************************************************************)
IsPostMessage(request) ==
    /\ request.method = "POST"
    /\ request.pathname = "/mcp"
    /\ request.body.valid
    /\ request.body.method = "tools/call"
    /\ request.body.hasParams
    /\ request.body.name = "post-message"

C30_SuccessMeansPosted ==
    /\ answer.text = "Successfully posted message" =>
           /\ IsPostMessage(served)
           /\ answer.device = [sent |-> TRUE, method |-> "POST", outcome |-> "data"]
    /\ (IsPostMessage(served) /\ served.body.text = NONE) => ~answer.device.sent
    /\ bindings.VESTABOARD_READ_WRITE_KEY = NONE =>
           /\ ~answer.device.sent
           /\ (IsPostMessage(served) /\ served.body.text # NONE
                 /\ answer.handler = "tools/call") =>
                  answer.text = "Failed to post message"

\* the three cases: posted, no text, no key
C30_Witness ==
    /\ IsPostMessage(served)
    /\ answer.text = "Successfully posted message"

C30_WitnessNoText ==
    /\ IsPostMessage(served)
    /\ served.body.hasArguments
    /\ answer.text = "No text provided for Vestaboard message."

C30_WitnessNoKey ==
    /\ IsPostMessage(served)
    /\ bindings.VESTABOARD_READ_WRITE_KEY = NONE
    /\ answer.text = "Failed to post message"


(***************************************************************************)
(* The streams of the entry point: the cancel callback of a stream and the *)
(* callback of its 30-second interval (createSSEResponse).                 *)
(***************************************************************************)
MaxTicks == 2

\* cancel() of the s-th stream: the client went away
StreamCancel(s) ==
    /\ streams[s].open
    /\ streams' = [streams EXCEPT ![s].open = FALSE]
    /\ sessions' = SessionsDelete(streams[s].sessionId)
    /\ UNCHANGED <<bindings, served, answer>>
    /\ UNCHANGED <<formatVars, codesVars, transportVars, expressVars>>

\* the interval callback of the s-th stream; controller.enqueue throws when
\* the stream is no longer open
PingTick(s) ==
    /\ streams[s].timer
    /\ streams[s].ticks < MaxTicks
    /\ LET sessionId == streams[s].sessionId
           ticked == [streams[s] EXCEPT !.ticks = @ + 1]
       IN  IF SessionsHas(sessionId)
           THEN IF streams[s].open
                THEN /\ streams' = [streams EXCEPT ![s] =
                                        [ticked EXCEPT !.pings = @ + 1]]
                     /\ UNCHANGED sessions
                ELSE /\ streams' = [streams EXCEPT ![s] =
                                        [ticked EXCEPT !.timer = FALSE]]
                     /\ sessions' = SessionsDelete(sessionId)
           ELSE /\ streams' = [streams EXCEPT ![s] =
                                   [ticked EXCEPT !.timer = FALSE]]
                /\ UNCHANGED sessions
    /\ UNCHANGED <<bindings, served, answer>>
    /\ UNCHANGED <<formatVars, codesVars, transportVars, expressVars>>

\* a client opens a stream, with or without the key and a session id
ConnectRequests ==
    { Request("GET", "/mcp", Headers(a, NONE, sessionId), NoBody) :
          a \in {NONE, API_KEY}, sessionId \in SessionHeaders }
ConnectEnvs ==
    { env \in Envs : /\ env.VESTABOARD_READ_WRITE_KEY = NONE
                     /\ env.MCP_AUTH_HEADER_NAME = ""
                     /\ env.MCP_API_KEY = API_KEY }

Connect == \E request \in ConnectRequests : Fetch(request)
Cancel == \E s \in 1..Len(streams) : StreamCancel(s)
Tick == \E s \in 1..Len(streams) : PingTick(s)

NextStreams ==
    \/ Connect
    \/ Cancel
    \/ Tick

SpecStreams == WorkerInit(ConnectEnvs) /\ [][NextStreams]_vars

(***************************************************************************)
(* C26. For every session id, sessions holds an entry exactly while a      *)
(* stream opened for that id is open: the cancel or the failed ping of an  *)
(* older stream does not remove the entry of a newer stream with the same  *)
(* id.                                                                     *)
(***************************************************************************)
OpenFor(sessionId) ==
    \E s \in 1..Len(streams) :
        streams[s].sessionId = sessionId /\ streams[s].open

C26_EntryWhileOpen ==
    /\ \A entry \in sessions : OpenFor(entry[1])
    /\ \A s \in 1..Len(streams) :
          streams[s].open => SessionsHas(streams[s].sessionId)

(***************************************************************************)
(* C27. At every tick of its interval a stream that is open gets a ping,   *)
(* whatever the connects and cancels of other streams, those with its      *)
(* session id included.                                                    *)
(***************************************************************************)
C27_OpenStreamPinged ==
    [][\A s \in 1..Len(streams) :
          (streams'[s].ticks # streams[s].ticks /\ streams[s].open) =>
              streams'[s].pings = streams[s].pings + 1]_vars


(***************************************************************************)
(* WorkerTransport (worker-transport.ts): handlePostRequest with its       *)
(* processMessage, and send as the server calls it. The server is          *)
(* connected (onmessage is set), no stream is open (_sseController is      *)
(* undefined) and the transport is not closed.                             *)
(***************************************************************************)
MaxRequests == 3
MaxNotifications == 1

JsonRpcRequest(id) == [kind |-> "request", id |-> id]
JsonRpcResponse(id) == [kind |-> "response", id |-> id]
JsonRpcNotification == [kind |-> "notification", id |-> 0]

PostedMessages ==
    { JsonRpcRequest(id) : id \in 1..MaxRequests } \cup { JsonRpcNotification }

\* handlePostRequest up to the await of processMessage: a request puts its
\* temporary send in place and is given to onmessage; a notification is
\* given to onmessage and the call returns null
HandlePostRequest(message) ==
    /\ message \notin delivered
    /\ delivered' = delivered \cup {message}
    /\ IF message.kind = "request"
       THEN sendHandlers' = Append(sendHandlers, message.id)
       ELSE UNCHANGED sendHandlers
    /\ UNCHANGED <<answered, resolved, notified>>
    /\ UNCHANGED <<formatVars, codesVars, workerVars, expressVars>>

\* this.send(message): the temporary send in place, if any, restores the
\* send it replaced and resolves its own call with the message; the
\* original send does nothing without a stream
Send(message) ==
    IF sendHandlers # << >>
    THEN /\ resolved' = resolved \cup
                {[request |-> sendHandlers[Len(sendHandlers)],
                  message |-> message]}
         /\ sendHandlers' = SubSeq(sendHandlers, 1, Len(sendHandlers) - 1)
    ELSE UNCHANGED <<resolved, sendHandlers>>

\* the server sends the response of a request it was given
ServerRespond(id) ==
    /\ JsonRpcRequest(id) \in delivered
    /\ id \notin answered
    /\ answered' = answered \cup {id}
    /\ Send(JsonRpcResponse(id))
    /\ UNCHANGED <<delivered, notified>>
    /\ UNCHANGED <<formatVars, codesVars, workerVars, expressVars>>

\* the server sends a notification
ServerNotify ==
    /\ notified < MaxNotifications
    /\ notified' = notified + 1
    /\ Send(JsonRpcNotification)
    /\ UNCHANGED <<delivered, answered>>
    /\ UNCHANGED <<formatVars, codesVars, workerVars, expressVars>>

Post == \E message \in PostedMessages : HandlePostRequest(message)
Respond == \E id \in 1..MaxRequests : ServerRespond(id)

NextTransport ==
    \/ Post
    \/ Respond
    \/ ServerNotify

SpecTransport == InitOver({ << >> }) /\ [][NextTransport]_vars

(***************************************************************************)
(* C28. Each handlePostRequest call resolves with the response to its own  *)
(* request, also when another request is in flight on the transport, and   *)
(* never with a message that is not that response, such as a notification  *)
(* the server sends while the request is pending.                          *)
(***************************************************************************)
C28_OwnResponse ==
    \A r \in resolved : r.message = JsonRpcResponse(r.request)


(***************************************************************************)
(* The Express MCPServer: handlePostRequest, handleHttpRequest and         *)
(* handleGetRequest. A body is described by what the handlers read of it:  *)
(* whether it is there, is an array, has a jsonrpc member, its method, and *)
(* whether isInitializeRequest accepts it.                                 *)
(***************************************************************************)
MaxTransports == 2

ExpressBody(isArray, jsonrpc, method, isInitialize) ==
    [present |-> TRUE, isArray |-> isArray, jsonrpc |-> jsonrpc,
     method |-> method, isInitialize |-> isInitialize]

ExpressBodies ==
    { NoAsked.body,
      ExpressBody(FALSE, TRUE, "initialize", TRUE),
      ExpressBody(FALSE, TRUE, "tools/list", FALSE),
      ExpressBody(FALSE, TRUE, "unknown", FALSE),
      ExpressBody(FALSE, FALSE, "initialize", TRUE),
      ExpressBody(TRUE, FALSE, "", TRUE),
      ExpressBody(TRUE, FALSE, "", FALSE) }

\* randomUUID() of the transport made next
NextTransportId == <<"t">> \o NumberToString(created + 1)

ExpressSessionIds == { NONE, <<"t", "1">>, <<"t", "2">>, <<"z">> }

ExpressRequests ==
    { [method |-> "POST", sessionId |-> sessionId, body |-> body] :
          sessionId \in ExpressSessionIds, body \in ExpressBodies }
    \cup { [method |-> "GET", sessionId |-> sessionId, body |-> NoAsked.body] :
               sessionId \in ExpressSessionIds }

TransportsHas(sessionId) == \E entry \in transports : entry[1] = sessionId
TransportsGet(sessionId) ==
    (CHOOSE entry \in transports : entry[1] = sessionId)[2]

Replied(status, by, transport) ==
    [status |-> status, by |-> by, transport |-> transport]

\* the methods that have a request handler on the server
RequestHandlers == {"initialize", "tools/list", "tools/call", "ping"}

\* handleHttpRequest: the answer is made without any transport
handleHttpRequest(req) ==
    /\ \/ /\ req.body.method = "initialize"
          /\ replied' = Replied(200, "http", 0)
       \/ /\ req.body.method # "initialize"
          /\ req.body.method \notin RequestHandlers
          /\ replied' = Replied(400, "http", 0)
       \/ /\ req.body.method # "initialize"
          /\ req.body.method \in RequestHandlers
          /\ \E status \in {200, 500} : replied' = Replied(status, "http", 0)
    /\ UNCHANGED <<transports, created>>

\* handlePostRequest; the transport that is made handles the request and
\* then has a session id, or has none, or throws
handlePostRequest(req) ==
    /\ asked' = req
    /\ LET sessionId == req.sessionId
       IN  IF sessionId = NONE /\ req.body.present /\ req.body.jsonrpc
           THEN handleHttpRequest(req)
           ELSE IF sessionId # NONE /\ TransportsHas(sessionId)
           THEN /\ \E status \in {200, 500} :
                      replied' = Replied(status, "transport",
                                         TransportsGet(sessionId))
                /\ UNCHANGED <<transports, created>>
           ELSE IF sessionId = NONE /\ req.body.isInitialize
           THEN /\ created < MaxTransports
                /\ created' = created + 1
                /\ \/ /\ transports' = transports \cup
                              {<<NextTransportId, created + 1>>}
                      /\ replied' = Replied(200, "transport", created + 1)
                   \/ /\ UNCHANGED transports
                      /\ \E status \in {200, 500} :
                            replied' = Replied(status, "transport", created + 1)
           ELSE /\ replied' = Replied(400, "", 0)
                /\ UNCHANGED <<transports, created>>
    /\ UNCHANGED <<formatVars, codesVars, workerVars, transportVars>>

handleGetRequest(req) ==
    /\ asked' = req
    /\ IF req.sessionId = NONE \/ ~TransportsHas(req.sessionId)
       THEN replied' = Replied(400, "", 0)
       ELSE replied' = Replied(200, "transport", TransportsGet(req.sessionId))
    /\ UNCHANGED <<transports, created>>
    /\ UNCHANGED <<formatVars, codesVars, workerVars, transportVars>>

ExpressPost ==
    \E req \in ExpressRequests : req.method = "POST" /\ handlePostRequest(req)
ExpressGet ==
    \E req \in ExpressRequests : req.method = "GET" /\ handleGetRequest(req)

NextExpress ==
    \/ ExpressPost
    \/ ExpressGet

SpecExpress == InitOver({ << >> }) /\ [][NextExpress]_vars

(***************************************************************************)
(* C25. A POST /mcp with a JSON-RPC initialize request and no session id   *)
(* makes a new transport and registers it in transports under the session  *)
(* id generated for it; a GET or POST /mcp with a session id that is       *)
(* registered is served by the transport registered under it, not answered *)
(* 400.                                                                    *)
(***************************************************************************)
IsInitializePost(req) ==
    /\ req.method = "POST"
    /\ req.sessionId = NONE
    /\ req.body.present
    /\ ~req.body.isArray
    /\ req.body.jsonrpc
    /\ req.body.method = "initialize"
    /\ req.body.isInitialize

C25_InitializeRegistersSession ==
    /\ [][IsInitializePost(asked') =>
              /\ created' = created + 1
              /\ \E entry \in transports' :
                    /\ entry \notin transports
                    /\ entry[2] = created']_vars
    /\ [][(asked'.sessionId # NONE /\ TransportsHas(asked'.sessionId)) =>
              /\ replied'.by = "transport"
              /\ replied'.transport = TransportsGet(asked'.sessionId)
              /\ replied'.status # 400]_vars

=============================================================================
